---- MODULE Spec2Model ----
(***************************************************************************)
(* Model of the issue-enrichment pipeline of Ai4ReleaseNotes:              *)
(* JiraEnricher.analyze_issue_with_ai (the retry loop around the Azure     *)
(* OpenAI call) and JiraEnricher.add_ai_analysis_to_issue (its caller).    *)
(*                                                                         *)
(* One enrichment of one issue is modelled.  The coroutine is split at its *)
(* await points: the kernel.invoke call and the asyncio.sleep calls.       *)
(* The outcome of kernel.invoke is an input, drawn from Outcomes.          *)
(***************************************************************************)
EXTENDS Integers, Sequences, FiniteSets, TLC

VARIABLES
    pc,                 \* position of the coroutine
    deployment,         \* config["azure_openai_gpt_deployment"]
    attempt,            \* local variable attempt of analyze_issue_with_ai
    prompt_additions,   \* local dict prompt_additions of the current iteration
    invocations,        \* number of kernel.invoke calls started
    requests,           \* prompt_additions sent with each kernel.invoke call
    outcomes,           \* outcome of each kernel.invoke call
    sleeps,             \* asyncio.sleep calls: delay and the invocation they follow
    result,             \* how analyze_issue_with_ai ended
    enrich_ret,         \* how add_ai_analysis_to_issue ended
    ai_enriched,        \* issue['ai_enriched']
    \* _extract_json_from_text
    x_pc,               \* position inside _extract_json_from_text
    text,               \* its argument
    matches,            \* re.findall(json_pattern, text)
    match_idx,          \* position of the for loop over matches
    start_idx,          \* text.find('{')
    idx,                \* loop variable i of the brace walk
    brace_count,
    in_string,
    escape_next,
    extracted,          \* the returned string
    \* add_ai_analysis_to_issue, the merge
    m_pc,               \* position inside add_ai_analysis_to_issue
    issue,              \* the issue dict
    issue_before,       \* the issue dict when the call started
    analysis,           \* what analyze_issue_with_ai returned or raised
    m_ret,              \* what add_ai_analysis_to_issue returned or raised
    \* the HTTP handler, process_with_timeout and fetch_and_analyze_issues
    h_pc,               \* position of the handler and of what it awaits
    request,            \* the route and its parameters
    env,                \* the environment: settings and log level
    search_result,      \* how the search for issues ended
    parsed,             \* the list of issue dicts
    tasks,              \* the add_ai_analysis_to_issue task of each issue
    successful_enrichments,
    sinks,              \* calls of save_issues_to_file and page_create
    raised,             \* the exception that reached the handler
    status_code,        \* status of the HttpResponse
    actor,              \* who took the last step: 0 or the task's index
    \* the snippet of add_ai_analysis_to_issue and the kernel.invoke arguments
    s_pc,               \* position of each of two calls
    s_issue,            \* the issue dict given to each call
    s_snippet,          \* the snippet each call built
    s_request,          \* the arguments of each call's kernel.invoke
    \* the Confluence block of fetch_and_analyze_issues
    c_pc,               \* position inside the block
    c_environ,          \* os.environ.get('CONFLUENCE_PARENT_ID')
    c_config,           \* the settings self.config holds
    c_issues,           \* parsed, after the enrichment
    c_i,                \* position of the for loop over parsed
    c_parent_id,        \* local variable parent_id
    c_flag,             \* local variable create_confluence_pages
    c_calls,            \* the page_create calls: issue and page_data
    c_skipped,          \* confluence_skipped
    c_success,          \* confluence_success
    c_raised,           \* the exception that left the block
    \* JiraAPIWrapper.page_create
    p_pc,               \* position inside page_create
    p_query,            \* its argument, the text of the parameters
    p_environ,          \* os.environ.get('CONFLUENCE_PARENT_ID')
    p_parent,           \* create_params["parent_id"], absent when not set
    p_trace,            \* the calls made to the Confluence client
    p_ret,              \* what page_create returned or raised
    \* JiraAPIWrapper.search_new
    q_pc,               \* position inside search_new
    q_arg,              \* the argument max_results
    q_total,            \* the number of issues the query matches
    q_max_results,      \* local variable max_results
    q_start_at,         \* local variable start_at
    q_all_issues        \* local variable all_issues

loopVars == <<pc, deployment, attempt, prompt_additions, invocations, requests,
              outcomes, sleeps, result, enrich_ret, ai_enriched>>

extractVars == <<x_pc, text, matches, match_idx, start_idx, idx, brace_count,
                 in_string, escape_next, extracted>>

mergeVars == <<m_pc, issue, issue_before, analysis, m_ret>>

batchVars == <<h_pc, request, env, search_result, parsed, tasks,
               successful_enrichments, sinks, raised, status_code, actor>>

snippetVars == <<s_pc, s_issue, s_snippet, s_request>>

confVars == <<c_pc, c_environ, c_config, c_issues, c_i, c_parent_id, c_flag,
              c_calls, c_skipped, c_success, c_raised>>

pageVars == <<p_pc, p_query, p_environ, p_parent, p_trace, p_ret>>

searchVars == <<q_pc, q_arg, q_total, q_max_results, q_start_at, q_all_issues>>

auxVars == <<snippetVars, confVars, pageVars, searchVars>>

coreVars == <<loopVars, extractVars, mergeVars, batchVars>>

vars == <<coreVars, auxVars>>

---------------------------------------------------------------------------
(* Program constants *)

max_attempts_4 == 3 + 1

max_attempts == 3

Deployments == {"o4-mini", "gpt-4o"}

---------------------------------------------------------------------------
(* Outcomes of one kernel.invoke call under asyncio.wait_for.              *)
(*   kind    what happened to the call                                     *)
(*   detail  Success: what the response text holds;                        *)
(*           Unauthorized: how the failure is raised;                      *)
(*           ParameterError: the parameter the error message names         *)
(*   has401  the error message text contains "401"                         *)
(*   llm     the exception carries an llm_output attribute                 *)
(* An exception is a ParameterError exactly when its message contains      *)
(* "unsupported_parameter" or "unsupported_value" (line 200); the messages *)
(* of the other kinds do not contain these markers.  The construction of   *)
(* the schema instance at line 151 is taken to succeed.                    *)

SuccessOutcomes ==
    [kind : {"Success"}, detail : {"valid", "empty", "nojson", "invalid"},
     has401 : {FALSE}, llm : {"absent"}]

TimeoutOutcomes ==
    [kind : {"Timeout"}, detail : {"-"}, has401 : {FALSE}, llm : {"absent"}]

UnauthorizedOutcomes ==
    [kind : {"Unauthorized"}, detail : {"HttpUnauthorizedError", "status_code"},
     has401 : BOOLEAN, llm : {"absent"}]

ParameterOutcomes ==
    [kind : {"ParameterError"}, detail : {"temperature", "max_tokens", "top_p"},
     has401 : {FALSE}, llm : {"absent"}]

TransportOutcomes ==
    [kind : {"TransportError"}, detail : {"-"},
     has401 : BOOLEAN, llm : {"absent", "normalizable", "unusable"}]

Outcomes ==
    SuccessOutcomes \cup TimeoutOutcomes \cup UnauthorizedOutcomes
        \cup ParameterOutcomes \cup TransportOutcomes

---------------------------------------------------------------------------
(* Pure parts of analyze_issue_with_ai *)

\* prompt_additions as built at the start of every loop iteration.
\* "unset" stands for a key that is not in the dict.
PromptAdditions(dep) ==
    [temperature           |-> "unset",
     max_tokens            |-> "unset",
     max_completion_tokens |-> IF dep = "o4-mini" THEN "1000" ELSE "unset"]

\* The adjustment of prompt_additions in the parameter-error handler.
AdjustParameters(pa, named) ==
    IF named = "temperature"
    THEN [pa EXCEPT !.temperature = "1.0"]
    ELSE IF named = "max_tokens"
         THEN IF pa.max_tokens # "unset"
              THEN [pa EXCEPT !.max_completion_tokens = pa.max_tokens,
                              !.max_tokens = "unset"]
              ELSE [pa EXCEPT !.max_completion_tokens = "1000"]
         ELSE pa

BackoffHalved(n) == 2 ^ (n - 1)

\* backoff = 2 ** attempt
Backoff(n) == 2 ^ n

ClassifyRetryUnauthorized(o) ==
    CASE o.kind = "Timeout"        -> "timeout"
      [] o.kind = "ParameterError" -> "parameter"
      [] o.kind = "Success"        ->
            IF o.detail = "valid" THEN "success" ELSE "value_error"
      [] OTHER                     ->
            IF o.llm = "normalizable" THEN "fallback" ELSE "retry"

ClassifyNoValidation(o) ==
    CASE o.kind = "Timeout"        -> "timeout"
      [] o.kind = "ParameterError" -> "parameter"
      [] o.kind = "Success"        -> "success"
      [] o.kind = "Unauthorized" /\ o.detail = "HttpUnauthorizedError"
                                   -> "unauthorized"
      [] OTHER                     ->
            IF o.kind = "Unauthorized" \/ o.has401
            THEN "unauthorized"
            ELSE IF o.llm = "normalizable" THEN "fallback" ELSE "retry"

\* The branch of the try/except chain that handles an outcome.
Classify(o) ==
    CASE o.kind = "Timeout"        -> "timeout"
      [] o.kind = "ParameterError" -> "parameter"
      [] o.kind = "Success"        ->
            IF o.detail = "valid" THEN "success" ELSE "value_error"
      [] o.kind = "Unauthorized" /\ o.detail = "HttpUnauthorizedError"
                                   -> "unauthorized"
      [] OTHER                     ->
            IF o.kind = "Unauthorized" \/ o.has401
            THEN "unauthorized"
            ELSE IF o.llm = "normalizable" THEN "fallback" ELSE "retry"

ExhaustedRaises == "RuntimeError"

\* The value returned when the while loop ends.
ExhaustedResult == "None"

EnrichReturnAbsorbing(r) ==
    IF r = "analysis" THEN "True" ELSE "False"

\* How add_ai_analysis_to_issue ends, given how analyze_issue_with_ai ended.
EnrichReturn(r) ==
    CASE r = "analysis" -> "True"
      [] r = "None"     -> "False"
      [] OTHER          -> r

---------------------------------------------------------------------------
(* Values of the variables of the parts a specification leaves out *)

LoopIdle ==
    /\ pc = "idle"
    /\ deployment = "gpt-4o"
    /\ attempt = 0
    /\ prompt_additions = PromptAdditions("gpt-4o")
    /\ invocations = 0
    /\ requests = << >>
    /\ outcomes = << >>
    /\ sleeps = << >>
    /\ result = "pending"
    /\ enrich_ret = "pending"
    /\ ai_enriched = "unset"

ExtractIdle ==
    /\ x_pc = "idle"
    /\ text = << >>
    /\ matches = << >>
    /\ match_idx = 0
    /\ start_idx = 0
    /\ idx = 0
    /\ brace_count = 0
    /\ in_string = FALSE
    /\ escape_next = FALSE
    /\ extracted = << >>

MergeIdle ==
    /\ m_pc = "idle"
    /\ issue = << >>
    /\ issue_before = << >>
    /\ analysis = << >>
    /\ m_ret = "pending"

SnippetIdle ==
    /\ s_pc = << >>
    /\ s_issue = << >>
    /\ s_snippet = << >>
    /\ s_request = << >>

ConfIdle ==
    /\ c_pc = "idle"
    /\ c_environ = "null"
    /\ c_config = << >>
    /\ c_issues = << >>
    /\ c_i = 0
    /\ c_parent_id = "null"
    /\ c_flag = FALSE
    /\ c_calls = << >>
    /\ c_skipped = 0
    /\ c_success = 0
    /\ c_raised = "none"

PageIdle ==
    /\ p_pc = "idle"
    /\ p_query = << >>
    /\ p_environ = "null"
    /\ p_parent = [type |-> "absent", v |-> "null"]
    /\ p_trace = << >>
    /\ p_ret = "pending"

SearchIdle ==
    /\ q_pc = "idle"
    /\ q_arg = 0
    /\ q_total = 0
    /\ q_max_results = 0
    /\ q_start_at = 0
    /\ q_all_issues = << >>

AuxIdle ==
    /\ SnippetIdle
    /\ ConfIdle
    /\ PageIdle
    /\ SearchIdle

BatchIdle ==
    /\ h_pc = "idle"
    /\ request = << >>
    /\ env = << >>
    /\ search_result = "pending"
    /\ parsed = << >>
    /\ tasks = << >>
    /\ successful_enrichments = 0
    /\ sinks = << >>
    /\ raised = "none"
    /\ status_code = 0
    /\ actor = 0

---------------------------------------------------------------------------
(* Initial state: add_ai_analysis_to_issue has not been called yet *)

Init ==
    /\ pc = "idle"
    /\ deployment \in Deployments
    /\ attempt = 0
    /\ prompt_additions = PromptAdditions(deployment)
    /\ invocations = 0
    /\ requests = << >>
    /\ outcomes = << >>
    /\ sleeps = << >>
    /\ result = "pending"
    /\ enrich_ret = "pending"
    /\ ai_enriched = "unset"
    /\ ExtractIdle
    /\ MergeIdle
    /\ BatchIdle
    /\ AuxIdle

---------------------------------------------------------------------------
(* Actions *)

\* add_ai_analysis_to_issue builds the snippet and calls analyze_issue_with_ai,
\* which sets attempt = 0 and reaches the while loop.
Enrich ==
    /\ pc = "idle"
    /\ pc' = "loop"
    /\ attempt' = 0
    /\ UNCHANGED <<deployment, prompt_additions, invocations, requests,
                   outcomes, sleeps, result, enrich_ret, ai_enriched>>
    /\ UNCHANGED <<extractVars, mergeVars, batchVars, auxVars>>

\* One loop iteration up to the await of kernel.invoke.
Invoke ==
    /\ pc = "loop"
    /\ attempt < max_attempts
    /\ prompt_additions' = PromptAdditions(deployment)
    /\ requests' = Append(requests, prompt_additions')
    /\ invocations' = invocations + 1
    /\ pc' = "invoking"
    /\ UNCHANGED <<deployment, attempt, outcomes, sleeps, result,
                   enrich_ret, ai_enriched>>
    /\ UNCHANGED <<extractVars, mergeVars, batchVars, auxVars>>

\* The while condition fails: return None.
Exhausted ==
    /\ pc = "loop"
    /\ ~(attempt < max_attempts)
    /\ result' = ExhaustedResult
    /\ pc' = "returned"
    /\ UNCHANGED <<deployment, attempt, prompt_additions, invocations,
                   requests, outcomes, sleeps, enrich_ret, ai_enriched>>
    /\ UNCHANGED <<extractVars, mergeVars, batchVars, auxVars>>

\* except asyncio.TimeoutError
OnTimeout ==
    /\ pc = "invoking"
    /\ \E o \in Outcomes :
        /\ Classify(o) = "timeout"
        /\ outcomes' = Append(outcomes, o)
    /\ attempt' = attempt + 1
    /\ sleeps' = Append(sleeps, [after |-> invocations, secs |-> Backoff(attempt')])
    /\ pc' = "sleeping"
    /\ UNCHANGED <<deployment, prompt_additions, invocations, requests,
                   result, enrich_ret, ai_enriched>>
    /\ UNCHANGED <<extractVars, mergeVars, batchVars, auxVars>>

\* except Exception, message names unsupported_parameter / unsupported_value
OnParameterError ==
    /\ pc = "invoking"
    /\ \E o \in Outcomes :
        /\ Classify(o) = "parameter"
        /\ outcomes' = Append(outcomes, o)
        /\ prompt_additions' = AdjustParameters(prompt_additions, o.detail)
    /\ attempt' = attempt + 1
    /\ pc' = "loop"
    /\ UNCHANGED <<deployment, invocations, requests, sleeps, result,
                   enrich_ret, ai_enriched>>
    /\ UNCHANGED <<extractVars, mergeVars, batchVars, auxVars>>

\* except HttpUnauthorizedError: raise; or 401 found in except Exception
OnUnauthorized ==
    /\ pc = "invoking"
    /\ \E o \in Outcomes :
        /\ Classify(o) = "unauthorized"
        /\ outcomes' = Append(outcomes, o)
    /\ result' = "HttpUnauthorizedError"
    /\ pc' = "returned"
    /\ UNCHANGED <<deployment, attempt, prompt_additions, invocations,
                   requests, sleeps, enrich_ret, ai_enriched>>
    /\ UNCHANGED <<extractVars, mergeVars, batchVars, auxVars>>

\* return analysis, or return schema_cls(**normalized) from e.llm_output
OnSuccess ==
    /\ pc = "invoking"
    /\ \E o \in Outcomes :
        /\ Classify(o) \in {"success", "fallback"}
        /\ outcomes' = Append(outcomes, o)
    /\ result' = "analysis"
    /\ pc' = "returned"
    /\ UNCHANGED <<deployment, attempt, prompt_additions, invocations,
                   requests, sleeps, enrich_ret, ai_enriched>>
    /\ UNCHANGED <<extractVars, mergeVars, batchVars, auxVars>>

\* except ValueError / except Exception fall through to the exponential backoff
OnRetry ==
    /\ pc = "invoking"
    /\ \E o \in Outcomes :
        /\ Classify(o) \in {"value_error", "retry"}
        /\ outcomes' = Append(outcomes, o)
    /\ attempt' = attempt + 1
    /\ IF attempt' < max_attempts
       THEN /\ sleeps' = Append(sleeps, [after |-> invocations,
                                         secs |-> Backoff(attempt')])
            /\ pc' = "sleeping"
       ELSE /\ sleeps' = sleeps
            /\ pc' = "loop"
    /\ UNCHANGED <<deployment, prompt_additions, invocations, requests,
                   result, enrich_ret, ai_enriched>>
    /\ UNCHANGED <<extractVars, mergeVars, batchVars, auxVars>>

\* asyncio.sleep returns
Wake ==
    /\ pc = "sleeping"
    /\ pc' = "loop"
    /\ UNCHANGED <<deployment, attempt, prompt_additions, invocations,
                   requests, outcomes, sleeps, result, enrich_ret, ai_enriched>>
    /\ UNCHANGED <<extractVars, mergeVars, batchVars, auxVars>>

\* add_ai_analysis_to_issue after analyze_issue_with_ai has ended
EnrichFinish ==
    /\ pc = "returned"
    /\ enrich_ret' = EnrichReturn(result)
    /\ ai_enriched' = CASE enrich_ret' = "True"  -> "True"
                        [] enrich_ret' = "False" -> "False"
                        [] OTHER                 -> ai_enriched
    /\ pc' = "done"
    /\ UNCHANGED <<deployment, attempt, prompt_additions, invocations,
                   requests, outcomes, sleeps, result>>
    /\ UNCHANGED <<extractVars, mergeVars, batchVars, auxVars>>

Next ==
    \/ Enrich
    \/ Invoke
    \/ Exhausted
    \/ OnTimeout
    \/ OnParameterError
    \/ OnUnauthorized
    \/ OnSuccess
    \/ OnRetry
    \/ Wake
    \/ EnrichFinish

Spec == Init /\ [][Next]_vars

\* Every kernel.invoke call returns or times out, and every sleep ends.
FairSpec == Spec /\ WF_vars(Next)

---------------------------------------------------------------------------
(* Properties of the retry loop (analyze_issue_with_ai) *)

Ended == pc \in {"returned", "done"}

\* C1: at most 3 model invocations per issue: the attempt counter never
\* exceeds 3, and no invocation is started once it has reached 3.
C1_AttemptBudget ==
    /\ [](attempt <= 3 /\ invocations <= 3)
    /\ [][attempt >= 3 => invocations' = invocations]_vars

C1_Witness == Ended /\ attempt = 3 /\ invocations = 3

\* C2: an Unauthorized outcome is the last thing the loop does: no later
\* invocation, no sleep after it, HttpUnauthorizedError is raised; when the
\* first outcome is Unauthorized there is exactly one invocation.
C2_UnauthorizedFatal ==
    \A i \in 1..Len(outcomes) :
        outcomes[i].kind = "Unauthorized" =>
            /\ i = Len(outcomes)
            /\ invocations = i
            /\ attempt = i - 1
            /\ Ended
            /\ result = "HttpUnauthorizedError"
            /\ \A j \in 1..Len(sleeps) : sleeps[j].after < i

C2_Witness ==
    /\ Ended
    /\ Len(outcomes) = 1
    /\ outcomes[1].kind = "Unauthorized"
    /\ invocations = 1

\* C3: Timeout, Timeout, Success(valid JSON) ends with an analysis after
\* exactly 3 invocations, having slept 2s after the first and 4s after the
\* second invocation and at no other time.
C3_TimeoutTwiceThenSuccess ==
    ( /\ Ended
      /\ Len(outcomes) = 3
      /\ outcomes[1].kind = "Timeout"
      /\ outcomes[2].kind = "Timeout"
      /\ outcomes[3].kind = "Success" /\ outcomes[3].detail = "valid" )
    => /\ result = "analysis"
       /\ invocations = 3
       /\ sleeps = << [after |-> 1, secs |-> 2], [after |-> 2, secs |-> 4] >>

C3_Witness ==
    /\ Ended
    /\ Len(outcomes) = 3
    /\ outcomes[1].kind = "Timeout"
    /\ outcomes[2].kind = "Timeout"
    /\ outcomes[3].kind = "Success" /\ outcomes[3].detail = "valid"
    /\ result = "analysis"

\* C4: between invocation n and invocation n+1 the loop sleeps exactly once,
\* for 2^n seconds, whatever failure led to the retry (a ParameterError
\* included).
C4_BackoffBeforeEveryRetry ==
    \A n \in 1..(invocations - 1) :
        \E j \in 1..Len(sleeps) :
            /\ sleeps[j] = [after |-> n, secs |-> 2 ^ n]
            /\ \A k \in 1..Len(sleeps) : sleeps[k].after = n => k = j

\* C5: no sleep precedes the first invocation, and every sleep is followed
\* by another invocation before the loop ends.
C5_SleepOnlyBetweenAttempts ==
    /\ \A j \in 1..Len(sleeps) : sleeps[j].after >= 1
    /\ Ended => \A j \in 1..Len(sleeps) : sleeps[j].after < invocations

\* C6: when every response is a Success whose text holds no extractable,
\* schema-valid JSON, the loop makes exactly 3 invocations and returns None.
C6_MalformedExhausts ==
    ( /\ Ended
      /\ \A i \in 1..Len(outcomes) :
            /\ outcomes[i].kind = "Success"
            /\ outcomes[i].detail \in {"empty", "nojson", "invalid"} )
    => /\ invocations = 3
       /\ result = "None"

C6_Witness ==
    /\ Ended
    /\ Len(outcomes) = 3
    /\ \A i \in 1..3 : outcomes[i].kind = "Success" /\ outcomes[i].detail = "nojson"
    /\ result = "None"

\* C7: every run of the loop ends, with an analysis, with
\* HttpUnauthorizedError, or with None; a run whose attempts are used up
\* ends with None.
C7_Terminates ==
    /\ <>(result # "pending")
    /\ [](Ended => result \in {"analysis", "HttpUnauthorizedError", "None"})
    /\ []((Ended /\ attempt >= 3) => result = "None")

C7_Witness ==
    /\ Ended
    /\ attempt = 3
    /\ result = "None"
    /\ \E i \in 1..Len(outcomes) : outcomes[i].kind = "TransportError"

\* C8: the request that follows a ParameterError carries the adjustment:
\* temperature 1.0 when the error named the temperature,
\* max_completion_tokens and no max_tokens when it named max_tokens; it
\* differs from the rejected request.
C8_AdjustedRequestSent ==
    \A n \in 1..Len(outcomes) :
        (n + 1 <= Len(requests) /\ outcomes[n].kind = "ParameterError") =>
            /\ outcomes[n].detail = "temperature" =>
                    requests[n + 1].temperature = "1.0"
            /\ outcomes[n].detail = "max_tokens" =>
                    /\ requests[n + 1].max_completion_tokens # "unset"
                    /\ requests[n + 1].max_tokens = "unset"
            /\ outcomes[n].detail \in {"temperature", "max_tokens"} =>
                    requests[n + 1] # requests[n]

\* C9: a TransportError never ends the loop with HttpUnauthorizedError,
\* whatever its message text.
C9_TransportNeverFatal ==
    \A i \in 1..Len(outcomes) :
        outcomes[i].kind = "TransportError" =>
            ~(i = Len(outcomes) /\ result = "HttpUnauthorizedError")

---------------------------------------------------------------------------
(* Properties of add_ai_analysis_to_issue *)

\* C10 (as claimed): add_ai_analysis_to_issue always returns a boolean.
C10_NeverRaises ==
    pc = "done" => enrich_ret \in {"True", "False"}

\* C10 (amended): add_ai_analysis_to_issue returns a boolean unless
\* analyze_issue_with_ai raised HttpUnauthorizedError; that exception leaves
\* add_ai_analysis_to_issue unchanged, with ai_enriched not set.
C10_RaisesOnlyUnauthorized ==
    pc = "done" =>
        IF result = "HttpUnauthorizedError"
        THEN enrich_ret = "HttpUnauthorizedError" /\ ai_enriched = "unset"
        ELSE enrich_ret \in {"True", "False"} /\ ai_enriched = enrich_ret

C10_Witness ==
    /\ pc = "done"
    /\ enrich_ret = "HttpUnauthorizedError"
    /\ outcomes[Len(outcomes)].kind = "Unauthorized"

---------------------------------------------------------------------------
(* _extract_json_from_text.                                                *)
(* A text is a sequence of tokens.  A token is one character, named when   *)
(* it has no spelling in a TLA+ string, except the fence (three            *)
(* backticks), the tag json, and words (runs of letters, which mean        *)
(* nothing to the regular expression or to JSON), and DEEP, a run of more  *)
(* opening brackets than the interpreter's recursion limit allows          *)
(* json.loads to nest.                                                     *)

LB == "{"
RB == "}"
QT == "QUOTE"
BS == "BACKSLASH"
FENCE == "FENCE"
TAG == "json"
SP == " "
DIGIT == "1"
DEEP == "[[[["

\* First position p <= i <= Len(s) with s[i] = t, or 0: str.find
RECURSIVE Find(_, _, _)
Find(s, t, p) ==
    IF p > Len(s) THEN 0
    ELSE IF s[p] = t THEN p
    ELSE Find(s, t, p + 1)

\* Position of the first token at or after i that is not whitespace.
RECURSIVE SkipWs(_, _)
SkipWs(s, i) ==
    IF i <= Len(s) /\ s[i] = SP THEN SkipWs(s, i + 1) ELSE i

\* str.strip
RECURSIVE RStrip(_)
RStrip(s) ==
    IF s # << >> /\ s[Len(s)] = SP THEN RStrip(SubSeq(s, 1, Len(s) - 1)) ELSE s

Strip(s) == RStrip(SubSeq(s, SkipWs(s, 1), Len(s)))

\* json.loads: the scanners below return the position after the value that
\* starts at i, 0 when there is no value there (JSONDecodeError), or -1 when
\* the scanner meets DEEP where a value starts (RecursionError).
RECURSIVE StringEnd(_, _)
StringEnd(s, j) ==
    IF j > Len(s) THEN 0
    ELSE IF s[j] = QT THEN j + 1
    ELSE IF s[j] = BS
         THEN IF j + 1 <= Len(s) /\ s[j + 1] \in {QT, BS}
              THEN StringEnd(s, j + 2)
              ELSE 0
         ELSE StringEnd(s, j + 1)

RECURSIVE NumberEnd(_, _)
NumberEnd(s, j) ==
    IF j <= Len(s) /\ s[j] = DIGIT THEN NumberEnd(s, j + 1) ELSE j

RECURSIVE ValueEnd(_, _), MembersEnd(_, _), ElementsEnd(_, _)
ValueEnd(s, i) ==
    IF i = 0 \/ i > Len(s) THEN 0
    ELSE CASE s[i] = LB ->
                LET j == SkipWs(s, i + 1) IN
                IF j <= Len(s) /\ s[j] = RB THEN j + 1 ELSE MembersEnd(s, j)
           [] s[i] = "[" ->
                LET j == SkipWs(s, i + 1) IN
                IF j <= Len(s) /\ s[j] = "]" THEN j + 1 ELSE ElementsEnd(s, j)
           [] s[i] = QT    -> StringEnd(s, i + 1)
           [] s[i] = DIGIT -> NumberEnd(s, i + 1)
           [] s[i] = DEEP  -> -1
           [] OTHER        -> 0

\* "key" : value, then a comma and another member, or the closing brace
MembersEnd(s, j) ==
    IF j > Len(s) \/ s[j] # QT THEN 0
    ELSE LET k == StringEnd(s, j + 1)
             c == IF k = 0 THEN 0 ELSE SkipWs(s, k)
         IN  IF c = 0 \/ c > Len(s) \/ s[c] # ":" THEN 0
             ELSE LET v == ValueEnd(s, SkipWs(s, c + 1))
                      w == IF v <= 0 THEN v ELSE SkipWs(s, v)
                  IN  IF w <= 0 THEN w
                      ELSE IF w > Len(s) THEN 0
                      ELSE IF s[w] = RB THEN w + 1
                      ELSE IF s[w] = "," THEN MembersEnd(s, SkipWs(s, w + 1))
                      ELSE 0

\* value, then a comma and another value, or the closing bracket
ElementsEnd(s, j) ==
    LET v == ValueEnd(s, j)
        w == IF v <= 0 THEN v ELSE SkipWs(s, v)
    IN  IF w <= 0 THEN w
        ELSE IF w > Len(s) THEN 0
        ELSE IF s[w] = "]" THEN w + 1
        ELSE IF s[w] = "," THEN ElementsEnd(s, SkipWs(s, w + 1))
        ELSE 0

json_loads_objects_only(s) ==
    LET b == SkipWs(s, 1)
        e == ValueEnd(s, b)
    IN  e > 0 /\ SkipWs(s, e) = Len(s) + 1 /\ s[b] = LB

\* TRUE when json.loads(s) returns, FALSE when it raises JSONDecodeError
json_loads(s) ==
    LET e == ValueEnd(s, SkipWs(s, 1))
    IN  e > 0 /\ SkipWs(s, e) = Len(s) + 1

\* TRUE when json.loads(s) raises RecursionError, which is not a
\* JSONDecodeError
json_loads_overflows(s) == ValueEnd(s, SkipWs(s, 1)) = -1

\* re.findall(r'```(?:json)?\s*([\s\S]*?)```', text) from position p: the
\* group of every match, left to right, matches not overlapping.
RECURSIVE FindAllFrom(_, _)
FindAllFrom(s, p) ==
    LET a == Find(s, FENCE, p)
        t == IF a # 0 /\ a + 1 <= Len(s) /\ s[a + 1] = TAG THEN a + 2 ELSE a + 1
        q == SkipWs(s, t)
        b == IF a = 0 THEN 0 ELSE Find(s, FENCE, q)
    IN  IF a = 0 \/ b = 0 THEN << >>
        ELSE << SubSeq(s, q, b - 1) >> \o FindAllFrom(s, b + 1)

FindAllNoTag(s) ==
    LET RECURSIVE From(_)
        From(p) ==
            LET a == Find(s, FENCE, p)
                q == SkipWs(s, a + 1)
                b == IF a = 0 THEN 0 ELSE Find(s, FENCE, q)
            IN  IF a = 0 \/ b = 0 THEN << >>
                ELSE << SubSeq(s, q, b - 1) >> \o From(b + 1)
    IN  From(1)

FindAll(s) == FindAllFrom(s, 1)

CountsBracesAlways(in_str) == TRUE

\* if not in_string: the braces that the walk counts
CountsBraces(in_str) == ~in_str

\* The json.loads of the last resort raises something that is not caught
LastResortRaises(t) ==
    LET cleaned_text == Strip(t)
    IN  /\ cleaned_text # << >>
        /\ cleaned_text[1] = LB
        /\ cleaned_text[Len(cleaned_text)] = RB
        /\ json_loads_overflows(cleaned_text)

\* Last resort: the stripped text, when it starts with '{', ends with '}'
\* and parses; the empty string otherwise.
LastResort(t) ==
    LET cleaned_text == Strip(t)
    IN  IF /\ cleaned_text # << >>
           /\ cleaned_text[1] = LB
           /\ cleaned_text[Len(cleaned_text)] = RB
           /\ json_loads(cleaned_text)
        THEN cleaned_text
        ELSE << >>

---------------------------------------------------------------------------
(* Actions of _extract_json_from_text *)

\* matches = re.findall(json_pattern, text)
XFindAll ==
    /\ x_pc = "idle"
    /\ text # << >>
    /\ matches' = FindAll(text)
    /\ match_idx' = 1
    /\ x_pc' = "fenced"
    /\ UNCHANGED <<text, start_idx, idx, brace_count, in_string, escape_next,
                   extracted>>
    /\ UNCHANGED <<loopVars, mergeVars, batchVars, auxVars>>

\* One iteration of: for match in matches
XTryMatch ==
    /\ x_pc = "fenced"
    /\ match_idx <= Len(matches)
    /\ LET cleaned_json == Strip(matches[match_idx])
       IN  IF json_loads(cleaned_json)
           THEN /\ extracted' = cleaned_json
                /\ x_pc' = "done"
                /\ match_idx' = match_idx
           ELSE IF json_loads_overflows(cleaned_json)
           THEN /\ x_pc' = "raised"
                /\ UNCHANGED <<extracted, match_idx>>
           ELSE /\ match_idx' = match_idx + 1
                /\ UNCHANGED <<extracted, x_pc>>
    /\ UNCHANGED <<text, matches, start_idx, idx, brace_count, in_string,
                   escape_next>>
    /\ UNCHANGED <<loopVars, mergeVars, batchVars, auxVars>>

\* No fenced block parsed: start_idx = text.find('{') and the walk's set-up
XFindBrace ==
    /\ x_pc = "fenced"
    /\ match_idx > Len(matches)
    /\ start_idx' = Find(text, LB, 1)
    /\ IF start_idx' # 0
       THEN /\ idx' = start_idx'
            /\ x_pc' = "walk"
       ELSE /\ idx' = idx
            /\ x_pc' = "last"
    /\ brace_count' = 0
    /\ in_string' = FALSE
    /\ escape_next' = FALSE
    /\ UNCHANGED <<text, matches, match_idx, extracted>>
    /\ UNCHANGED <<loopVars, mergeVars, batchVars, auxVars>>

\* One iteration of: for i in range(start_idx, len(text))
XWalk ==
    /\ x_pc = "walk"
    /\ idx <= Len(text)
    /\ LET char == text[idx]
           toggled == IF char = QT /\ ~escape_next THEN ~in_string ELSE in_string
           escaping == char # QT /\ char = BS /\ in_string /\ ~escape_next
           counted == IF ~CountsBraces(toggled) THEN brace_count
                      ELSE IF char = LB THEN brace_count + 1
                      ELSE IF char = RB THEN brace_count - 1
                      ELSE brace_count
           potential_json == SubSeq(text, start_idx, idx)
       IN  IF escaping
           THEN /\ escape_next' = TRUE
                /\ idx' = idx + 1
                /\ UNCHANGED <<in_string, brace_count, extracted, x_pc>>
           ELSE /\ in_string' = toggled
                /\ brace_count' = counted
                /\ escape_next' = FALSE
                /\ IF /\ CountsBraces(toggled)
                      /\ char = RB
                      /\ counted = 0
                      /\ json_loads(potential_json)
                   THEN /\ extracted' = potential_json
                        /\ x_pc' = "done"
                        /\ idx' = idx
                   ELSE IF /\ CountsBraces(toggled)
                           /\ char = RB
                           /\ counted = 0
                           /\ json_loads_overflows(potential_json)
                   THEN \* except Exception: the walk is abandoned
                        /\ x_pc' = "last"
                        /\ UNCHANGED <<extracted, idx>>
                   ELSE /\ idx' = idx + 1
                        /\ UNCHANGED <<extracted, x_pc>>
    /\ UNCHANGED <<text, matches, match_idx, start_idx>>
    /\ UNCHANGED <<loopVars, mergeVars, batchVars, auxVars>>

\* The walk reached the end of the text
XWalkEnd ==
    /\ x_pc = "walk"
    /\ idx > Len(text)
    /\ x_pc' = "last"
    /\ UNCHANGED <<text, matches, match_idx, start_idx, idx, brace_count,
                   in_string, escape_next, extracted>>
    /\ UNCHANGED <<loopVars, mergeVars, batchVars, auxVars>>

\* The last resort and the final return
XLastResort ==
    /\ x_pc = "last"
    /\ extracted' = LastResort(text)
    /\ x_pc' = IF LastResortRaises(text) THEN "raised" ELSE "done"
    /\ UNCHANGED <<text, matches, match_idx, start_idx, idx, brace_count,
                   in_string, escape_next>>
    /\ UNCHANGED <<loopVars, mergeVars, batchVars, auxVars>>

ExtractNext ==
    \/ XFindAll
    \/ XTryMatch
    \/ XFindBrace
    \/ XWalk
    \/ XWalkEnd
    \/ XLastResort

---------------------------------------------------------------------------
(* Texts given to _extract_json_from_text *)

MaxLen == 3

MaxProse == 1

SeqsUpTo(S, n) == UNION { [1..k -> S] : k \in 0..n }

TextAlphabet == {LB, RB, QT, BS, FENCE, TAG, SP, "a", DIGIT, ":", DEEP}

ProseAlphabet == {LB, RB, QT, SP, "a"}

\* Every text of at most MaxLen tokens
ShortTexts == SeqsUpTo(TextAlphabet, MaxLen) \ { << >> }

Prose == SeqsUpTo(ProseAlphabet, MaxProse)

\* JSON objects, with braces, escaped quotes and escaped backslashes inside
\* their strings, and texts that only look like objects
ValidObjects ==
    { <<LB, RB>>,
      <<LB, QT, "a", QT, ":", DIGIT, RB>>,
      <<LB, QT, RB, QT, ":", DIGIT, RB>>,
      <<LB, QT, LB, QT, ":", DIGIT, RB>>,
      <<LB, QT, BS, QT, RB, QT, ":", DIGIT, RB>>,
      <<LB, QT, BS, BS, QT, ":", QT, LB, QT, RB>>,
      <<LB, QT, "a", QT, ":", LB, RB, RB>> }

InvalidObjects ==
    { <<LB, "a", RB>>,
      <<LB, QT, "a", QT, RB>>,
      <<LB, QT, "a", QT, ":", DIGIT>>,
      <<LB, QT, "a", QT, ":", DEEP, RB>>,
      <<DEEP>> }

Scalars == { <<DIGIT>>, <<QT, "a", QT>> }

Candidates == ValidObjects \cup InvalidObjects \cup Scalars

Tags == { << >>, <<TAG>>, <<TAG, SP>>, <<SP>> }

Block(tag, body) == <<FENCE>> \o tag \o body \o <<FENCE>>

\* prose, one fenced block, prose
FencedTexts ==
    { pre \o Block(tag, body \o trail) \o post :
        pre \in Prose, tag \in Tags, body \in Candidates,
        trail \in { << >>, <<SP>> }, post \in Prose }

\* prose, a bare candidate, prose
BareTexts ==
    { pre \o body \o post : pre \in Prose, body \in Candidates, post \in Prose }

\* two candidates, each fenced or bare, with prose between them
PairTexts ==
    { b1 \o mid \o b2 :
        b1 \in Candidates \cup { Block(<< >>, c) : c \in Candidates },
        mid \in Prose,
        b2 \in Candidates \cup { Block(<<TAG>>, c) : c \in Candidates } }

(* Analysis results and their JSON text.  A result is a function from the  *)
(* variant's fields to values; a value is tagged with its JSON type: a     *)
(* string ("str", a token sequence), a list of strings ("list") or a       *)
(* number ("num", a digit sequence).                                       *)

Variants == {"bug", "epic", "issue"}

\* The fields of the three schema classes, in declaration order
FieldOrder(variant) ==
    CASE variant = "bug"  -> <<"ticket_number", "executive_summary",
                               "technical_summary", "cause", "fix">>
      [] variant = "epic" -> <<"executive_summary", "technical_summary">>
      [] OTHER            -> <<"reasoning", "inferredCategories", "keywords",
                               "probability", "confidence">>

FieldKind(field) ==
    CASE field \in {"inferredCategories", "keywords"} -> "list"
      [] field \in {"probability", "confidence"}      -> "num"
      [] OTHER                                        -> "str"

Str(v) == [t |-> "str", v |-> v]
List(v) == [t |-> "list", v |-> v]
Num(v) == [t |-> "num", v |-> v]

\* JSON string escaping: a quote and a backslash get a backslash in front
RECURSIVE EscapeText(_)
EscapeText(v) ==
    IF v = << >> THEN << >>
    ELSE (IF Head(v) \in {QT, BS} THEN <<BS, Head(v)>> ELSE <<Head(v)>>)
         \o EscapeText(Tail(v))

DumpString(v) == <<QT>> \o EscapeText(v) \o <<QT>>

RECURSIVE DumpElements(_)
DumpElements(l) ==
    IF l = << >> THEN << >>
    ELSE DumpString(Head(l))
         \o (IF Tail(l) = << >> THEN << >> ELSE <<",", SP>>)
         \o DumpElements(Tail(l))

DumpValue(x) ==
    CASE x.t = "str"  -> DumpString(x.v)
      [] x.t = "list" -> <<"[">> \o DumpElements(x.v) \o <<"]">>
      [] OTHER        -> x.v

RECURSIVE DumpMembers(_, _)
DumpMembers(r, fields) ==
    IF fields = << >> THEN << >>
    ELSE <<QT, Head(fields), QT, ":", SP>> \o DumpValue(r[Head(fields)])
         \o (IF Tail(fields) = << >> THEN << >> ELSE <<",", SP>>)
         \o DumpMembers(r, Tail(fields))

\* The result as one JSON object, as json.dumps writes it
Serialize(r, variant) ==
    <<LB>> \o DumpMembers(r, FieldOrder(variant)) \o <<RB>>

\* Decoding of a text json.loads accepts.  Each decoder returns the value
\* read at position i and the position after it; ok is FALSE for a value
\* that is none of the three types above.
RECURSIVE DecodeString(_, _, _)
DecodeString(s, j, acc) ==
    IF s[j] = QT THEN [ok |-> TRUE, x |-> Str(acc), end |-> j + 1]
    ELSE IF s[j] = BS THEN DecodeString(s, j + 2, Append(acc, s[j + 1]))
    ELSE DecodeString(s, j + 1, Append(acc, s[j]))

RECURSIVE DecodeElements(_, _, _)
DecodeElements(s, j, acc) ==
    IF s[j] = "]" THEN [ok |-> TRUE, x |-> List(acc), end |-> j + 1]
    ELSE IF s[j] # QT THEN [ok |-> FALSE, x |-> List(acc), end |-> j]
    ELSE LET e == DecodeString(s, j + 1, << >>)
             w == SkipWs(s, e.end)
         IN  DecodeElements(s, IF s[w] = "," THEN SkipWs(s, w + 1) ELSE w,
                            Append(acc, e.x.v))

DecodeValue(s, i) ==
    CASE s[i] = QT    -> DecodeString(s, i + 1, << >>)
      [] s[i] = "["   -> DecodeElements(s, SkipWs(s, i + 1), << >>)
      [] s[i] = DIGIT -> [ok |-> TRUE,
                          x |-> Num(SubSeq(s, i, NumberEnd(s, i) - 1)),
                          end |-> NumberEnd(s, i)]
      [] OTHER        -> [ok |-> FALSE, x |-> Str(<< >>), end |-> i]

RECURSIVE DecodeMembers(_, _, _)
DecodeMembers(s, j, acc) ==
    IF s[j] = RB THEN [ok |-> TRUE, x |-> acc]
    ELSE LET k == DecodeString(s, j + 1, << >>)
             c == SkipWs(s, k.end)
             v == DecodeValue(s, SkipWs(s, c + 1))
             w == SkipWs(s, v.end)
             key == IF Len(k.x.v) = 1 THEN k.x.v[1] ELSE "?"
         IN  IF ~v.ok THEN [ok |-> FALSE, x |-> acc]
             ELSE DecodeMembers(s,
                                IF s[w] = "," THEN SkipWs(s, w + 1) ELSE w,
                                (key :> v.x) @@ acc)

NonEmpty(x) ==
    CASE x.t = "str" -> Strip(x.v) # << >>
      [] OTHER       -> x.v # << >>

\* validate(json_text, variant): the text parses as a JSON object, every
\* field of the variant is present with a value of the field's type, and
\* no required field is empty
Validate(json_text, variant) ==
    LET b == SkipWs(json_text, 1)
        fields == { FieldOrder(variant)[n] : n \in DOMAIN FieldOrder(variant) }
    IN  IF ~json_loads(json_text) \/ json_text[b] # LB
        THEN [ok |-> FALSE, kind |-> "malformed-json"]
        ELSE LET d == DecodeMembers(json_text, SkipWs(json_text, b + 1),
                                    << >>)
             IN  IF ~d.ok \/ ~(fields \subseteq DOMAIN d.x)
                 THEN [ok |-> FALSE, kind |-> "missing-field"]
                 ELSE IF \E f \in fields : d.x[f].t # FieldKind(f)
                 THEN [ok |-> FALSE, kind |-> "missing-field"]
                 ELSE IF \E f \in fields : ~NonEmpty(d.x[f])
                 THEN [ok |-> FALSE, kind |-> "empty-field"]
                 ELSE [ok |-> TRUE, value |-> [f \in fields |-> d.x[f]]]

\* Texts a model may write into a string field
FieldTexts ==
    { <<"a">>, <<"a", SP, "a">>, <<QT>>, <<BS>>, <<LB>>, <<RB>>,
      <<LB, DIGIT, RB>>, <<FENCE, "a", FENCE>>, <<FENCE, DIGIT, FENCE>> }

PlainResult(variant) ==
    LET fo == FieldOrder(variant)
    IN  [f \in { fo[n] : n \in DOMAIN fo } |->
            CASE FieldKind(f) = "list" -> List(<< <<"a">> >>)
              [] FieldKind(f) = "num"  -> Num(<<DIGIT>>)
              [] OTHER                 -> Str(<<"a">>)]

\* The valid results: the plain one with one field's text varied
AnalysisResults(variant) ==
    LET p == PlainResult(variant)
    IN  { [p EXCEPT ![f] = IF p[f].t = "str" THEN Str(v)
                           ELSE IF p[f].t = "list" THEN List(<<v, <<"a">>>>)
                           ELSE p[f]] :
            f \in DOMAIN p, v \in FieldTexts }

SerializedTexts ==
    { Serialize(r, v) : <<r, v>> \in
        UNION { AnalysisResults(v0) \X {v0} : v0 \in Variants } }

Texts ==
    ShortTexts \cup FencedTexts \cup BareTexts \cup PairTexts
    \cup SerializedTexts

ExtractInit ==
    /\ LoopIdle
    /\ MergeIdle
    /\ x_pc = "idle"
    /\ text \in Texts
    /\ matches = << >>
    /\ match_idx = 0
    /\ start_idx = 0
    /\ idx = 0
    /\ brace_count = 0
    /\ in_string = FALSE
    /\ escape_next = FALSE
    /\ extracted = << >>
    /\ BatchIdle
    /\ AuxIdle

ExtractSpec == ExtractInit /\ [][ExtractNext]_vars

---------------------------------------------------------------------------
(* Properties of _extract_json_from_text *)

Extracted == x_pc = "done"

ExtractEnded == x_pc \in {"done", "raised"}

NoJsonSubstring(t) ==
    \A a \in 1..Len(t) : \A b \in a..Len(t) : ~json_loads(SubSeq(t, a, b))

\* The positions of the fences of t, in text order
RECURSIVE FenceSeq(_, _)
FenceSeq(t, p) ==
    IF p > Len(t) THEN << >>
    ELSE IF t[p] = FENCE THEN <<p>> \o FenceSeq(t, p + 1)
    ELSE FenceSeq(t, p + 1)

\* What a fenced block holds: the tokens between two fences, without the
\* tag json and without the whitespace around them
BodyBetween(t, a, b) ==
    LET content == SubSeq(t, a + 1, b - 1)
    IN  Strip(IF content # << >> /\ content[1] = TAG
              THEN Tail(content) ELSE content)

\* The fenced blocks of t: fences 1 and 2, fences 3 and 4, ...
BlockBodies(t) ==
    LET f == FenceSeq(t, 1)
    IN  [k \in 1..(Len(f) \div 2) |-> BodyBetween(t, f[2 * k - 1], f[2 * k])]

Min(S) == CHOOSE x \in S : \A y \in S : x <= y

Max(S) == CHOOSE x \in S : \A y \in S : x >= y

\* End of the brace-balanced substring of t that starts at the '{' at j,
\* braces inside double-quoted strings not counted; 0 when there is none
RECURSIVE BalancedEnd(_, _, _, _)
BalancedEnd(t, i, depth, instr) ==
    IF i > Len(t) THEN 0
    ELSE IF instr
         THEN IF t[i] = BS THEN BalancedEnd(t, i + 2, depth, TRUE)
              ELSE BalancedEnd(t, i + 1, depth, t[i] # QT)
         ELSE IF t[i] = QT THEN BalancedEnd(t, i + 1, depth, TRUE)
              ELSE IF t[i] = LB THEN BalancedEnd(t, i + 1, depth + 1, FALSE)
              ELSE IF t[i] = RB
                   THEN IF depth = 1 THEN i
                        ELSE BalancedEnd(t, i + 1, depth - 1, FALSE)
              ELSE BalancedEnd(t, i + 1, depth, FALSE)

BalancedFrom(t, j) ==
    LET e == BalancedEnd(t, j, 0, FALSE)
    IN  IF e = 0 THEN << >> ELSE SubSeq(t, j, e)

\* C15: for a text none of whose substrings is valid JSON the extractor
\* returns the empty string; it does not raise.
C15_NoJsonGivesNone ==
    (ExtractEnded /\ NoJsonSubstring(text)) =>
        /\ x_pc = "done"
        /\ extracted = << >>

C17_ContinuesFromNextBrace ==
    LET B == BlockBodies(text)
        first == Find(text, LB, 1)
        later == { j \in (first + 1)..Len(text) :
                     /\ text[j] = LB
                     /\ json_loads(BalancedFrom(text, j)) }
    IN  ( /\ Extracted
          /\ \A k \in DOMAIN B : ~json_loads(B[k])
          /\ first # 0
          /\ BalancedFrom(text, first) # << >>
          /\ ~json_loads(BalancedFrom(text, first))
          /\ later # {} )
        => extracted = BalancedFrom(text, Min(later))

C19_FencedFirst ==
    LET B == BlockBodies(text)
        parsable == { k \in DOMAIN B : json_loads(B[k]) }
    IN  /\ x_pc \in {"walk", "last"} => parsable = {}
        /\ (ExtractEnded /\ parsable # {}) =>
                /\ x_pc = "done"
                /\ extracted = B[Min(parsable)]

\* C20: round trip.  For every valid analysis result of every variant, the
\* extractor applied to the result's JSON text returns a text the validator
\* of that variant turns back into the same result, field by field.
C20_RoundTrip ==
    \A v \in Variants :
        \A r \in AnalysisResults(v) :
            (ExtractEnded /\ Len(text) > 9 /\ text = Serialize(r, v)) =>
                /\ x_pc = "done"
                /\ LET back == Validate(extracted, v)
                   IN  /\ back.ok
                       /\ \A f \in DOMAIN r :
                            /\ back.value[f].t = r[f].t
                            /\ back.value[f].v = r[f].v

---------------------------------------------------------------------------
(* add_ai_analysis_to_issue: the merge of the analysis into the issue.     *)
(* An issue is a function from field names to values; a value is a         *)
(* sequence of characters or words.                                        *)

\* schema_cls: is_type.lower() selects the bug or the epic schema, anything
\* else the generic one
VariantOf(issuetype) ==
    CASE issuetype = <<"Bug">>  -> "bug"
      [] issuetype = <<"Epic">> -> "epic"
      [] OTHER                  -> "issue"

\* result.model_fields of the three schema classes
AnalysisFields(variant) ==
    CASE variant = "bug"  -> {"ticket_number", "executive_summary",
                              "technical_summary", "cause", "fix"}
      [] variant = "epic" -> {"executive_summary", "technical_summary"}
      [] OTHER            -> {"reasoning", "inferredCategories", "keywords",
                              "probability", "confidence"}

AllAnalysisFields == UNION { AnalysisFields(v) : v \in Variants }

Digits == {"4", "2"}

\* re.match(r"IP-\d+", s): the pattern is looked for at the start of s only
MatchesPlaceholder(s) ==
    /\ Len(s) >= 4
    /\ s[1] = "I" /\ s[2] = "P" /\ s[3] = "-"
    /\ s[4] \in Digits

\* issue.get(field, default)
Get(iss, field, default) ==
    IF field \in DOMAIN iss THEN iss[field] ELSE default

\* issue[field] = value
Put(iss, field, value) ==
    [f \in DOMAIN iss \cup {field} |-> IF f = field THEN value ELSE iss[f]]

MergeKeepExisting(iss, fields) ==
    [f \in DOMAIN iss \cup DOMAIN fields |->
        IF f \in DOMAIN iss THEN iss[f] ELSE fields[f]]

MergeReplace(iss, fields) ==
    [f \in DOMAIN fields \cup {"key"} |->
        IF f \in DOMAIN fields THEN fields[f] ELSE iss[f]]

\* for field in result.model_fields: issue[field] = getattr(result, field)
MergeResult(iss, fields) ==
    [f \in DOMAIN iss \cup DOMAIN fields |->
        IF f \in DOMAIN fields THEN fields[f] ELSE iss[f]]

\* if re.match(r"IP-\d+", issue.get('ticket_number', '')): clear it
NormalizeTicket(iss) ==
    IF MatchesPlaceholder(Get(iss, "ticket_number", << >>))
    THEN Put(iss, "ticket_number", << >>)
    ELSE iss

\* f"{self.config['jira_url']}/browse/{issue['key']}"
BrowsableUrl(iss) == <<"jira_url", "/browse/">> \o iss["key"]

EnrichedIssueNormalizeFirst(iss, fields) ==
    LET merged == MergeResult(NormalizeTicket(iss), fields)
        linked == Put(merged, "browsable_url", BrowsableUrl(merged))
    IN  Put(linked, "ai_enriched", <<"True">>)

\* The issue after a non-None result: merge, ticket clean-up, url, flag
EnrichedIssue(iss, fields) ==
    LET merged == NormalizeTicket(MergeResult(iss, fields))
        linked == Put(merged, "browsable_url", BrowsableUrl(merged))
    IN  Put(linked, "ai_enriched", <<"True">>)

---------------------------------------------------------------------------
(* Issues and analyses given to add_ai_analysis_to_issue *)

TicketNumbers ==
    { << >>,
      <<"I", "P", "-", "4", "2">>,
      <<"I", "P", "-", "4", "x">>,
      <<"I", "P", "-">>,
      <<"x", "I", "P", "-", "4">>,
      <<"I", "N", "C", "4", "2">> }

OldText == <<"old">>

NewText == <<"new">>

Absent == <<"ABSENT">>

\* A record of optional fields as an issue: the absent ones left out
Present(r) ==
    LET fields == { f \in DOMAIN r : r[f] # Absent }
    IN  [f \in fields |-> r[f]]

\* Issues as parse_issues builds them (key, summary, issuetype stand for its
\* fields), possibly already carrying fields that the enrichment writes
Issues ==
    { Present(r) : r \in
        [key               : {<<"ABC-1">>},
         summary           : {OldText},
         issuetype         : {<<"Bug">>, <<"Epic">>, <<"Story">>},
         ticket_number     : {Absent} \cup TicketNumbers,
         executive_summary : {Absent, OldText},
         browsable_url     : {Absent, OldText},
         ai_enriched       : {Absent, <<"True">>}] }

\* The analyses of a variant: every field filled, the ticket number varied
Analyses(variant) ==
    { [f \in AnalysisFields(variant) |->
            IF f = "ticket_number" THEN t ELSE NewText] : t \in TicketNumbers }

\* How analyze_issue_with_ai can end for an issue
ControllerResults(iss) ==
    { [kind |-> "analysis", fields |-> a] :
            a \in Analyses(VariantOf(iss["issuetype"])) }
        \cup { [kind |-> "None", fields |-> << >>],
               [kind |-> "HttpUnauthorizedError", fields |-> << >>] }

MergeInit ==
    /\ LoopIdle
    /\ ExtractIdle
    /\ m_pc = "idle"
    /\ issue \in Issues
    /\ issue_before = issue
    /\ analysis \in ControllerResults(issue)
    /\ m_ret = "pending"
    /\ BatchIdle
    /\ AuxIdle

\* The snippet is built and analyze_issue_with_ai is awaited
MCall ==
    /\ m_pc = "idle"
    /\ issue # << >>
    /\ m_pc' = "awaiting"
    /\ UNCHANGED <<issue, issue_before, analysis, m_ret>>
    /\ UNCHANGED <<loopVars, extractVars, batchVars, auxVars>>

\* if not result: issue['ai_enriched'] = False; return False
MNoResult ==
    /\ m_pc = "awaiting"
    /\ analysis.kind = "None"
    /\ issue' = Put(issue, "ai_enriched", <<"False">>)
    /\ m_ret' = EnrichReturn(analysis.kind)
    /\ m_pc' = "returned"
    /\ UNCHANGED <<issue_before, analysis>>
    /\ UNCHANGED <<loopVars, extractVars, batchVars, auxVars>>

\* analyze_issue_with_ai raised: nothing catches it
MRaised ==
    /\ m_pc = "awaiting"
    /\ analysis.kind \notin {"None", "analysis"}
    /\ m_ret' = EnrichReturn(analysis.kind)
    /\ m_pc' = "raised"
    /\ UNCHANGED <<issue, issue_before, analysis>>
    /\ UNCHANGED <<loopVars, extractVars, batchVars, auxVars>>

\* A result: merge it, clean the ticket number, set the url and the flag
MMerge ==
    /\ m_pc = "awaiting"
    /\ analysis.kind = "analysis"
    /\ issue' = EnrichedIssue(issue, analysis.fields)
    /\ m_ret' = EnrichReturn(analysis.kind)
    /\ m_pc' = "returned"
    /\ UNCHANGED <<issue_before, analysis>>
    /\ UNCHANGED <<loopVars, extractVars, batchVars, auxVars>>

MergeNext ==
    \/ MCall
    \/ MNoResult
    \/ MRaised
    \/ MMerge

MergeSpec == MergeInit /\ [][MergeNext]_vars

---------------------------------------------------------------------------
(* Properties of add_ai_analysis_to_issue *)

\* C11: the return value equals the enriched flag; True, with every field
\* of the analysis on the issue (the ticket number as merged or cleared),
\* exactly when analyze_issue_with_ai returned a result; False, with no
\* analysis field added or changed, when it returned None.
C11_ReturnEqualsFlag ==
    m_pc = "returned" =>
        /\ m_ret \in {"True", "False"}
        /\ issue["ai_enriched"] = <<m_ret>>
        /\ m_ret = "True" <=> analysis.kind = "analysis"
        /\ m_ret = "False" <=> analysis.kind = "None"
        /\ m_ret = "True" =>
                \A f \in DOMAIN analysis.fields :
                    /\ f \in DOMAIN issue
                    /\ f # "ticket_number" => issue[f] = analysis.fields[f]
                    /\ f = "ticket_number" =>
                            issue[f] \in {analysis.fields[f], << >>}
        /\ m_ret = "False" =>
                \A f \in AllAnalysisFields :
                    /\ f \in DOMAIN issue <=> f \in DOMAIN issue_before
                    /\ f \in DOMAIN issue => issue[f] = issue_before[f]

C11_Witness ==
    /\ m_pc = "returned"
    /\ m_ret = "True"
    /\ issue_before["issuetype"] = <<"Bug">>
    /\ "executive_summary" \in DOMAIN issue_before
    /\ issue["executive_summary"] = NewText
    /\ issue["ticket_number"] = <<"I", "N", "C", "4", "2">>
    /\ issue["ai_enriched"] = <<"True">>

\* C12: an issue is enriched only after a model response was extracted and
\* validated: the last outcome of the model call is a Success with valid
\* content.
C12_EnrichedOnlyViaPipeline ==
    ai_enriched = "True" =>
        /\ outcomes # << >>
        /\ outcomes[Len(outcomes)].kind = "Success"
        /\ outcomes[Len(outcomes)].detail = "valid"

C14_PlaceholderCleared ==
    LET merged == IF "ticket_number" \in DOMAIN analysis.fields
                  THEN analysis.fields["ticket_number"]
                  ELSE Get(issue_before, "ticket_number", Absent)
    IN  (m_pc = "returned" /\ m_ret = "True") =>
            /\ ~MatchesPlaceholder(Get(issue, "ticket_number", << >>))
            /\ IF merged = Absent
               THEN "ticket_number" \notin DOMAIN issue
               ELSE issue["ticket_number"] =
                        IF MatchesPlaceholder(merged) THEN << >> ELSE merged

C14_Witness ==
    /\ m_pc = "returned"
    /\ m_ret = "True"
    /\ "ticket_number" \in DOMAIN analysis.fields
    /\ analysis.fields["ticket_number"] = <<"I", "P", "-", "4", "2">>
    /\ "ticket_number" \in DOMAIN issue_before
    /\ issue_before["ticket_number"] = <<"I", "N", "C", "4", "2">>
    /\ issue["ticket_number"] = << >>

C14_WitnessAlreadyOnIssue ==
    /\ m_pc = "returned"
    /\ m_ret = "True"
    /\ "ticket_number" \notin DOMAIN analysis.fields
    /\ "ticket_number" \in DOMAIN issue_before
    /\ issue_before["ticket_number"] = <<"I", "P", "-", "4", "2">>
    /\ issue["ticket_number"] = << >>

---------------------------------------------------------------------------
(* Incomplete model responses *)

\* A model output that lacks required fields of the analysis: a response
\* text whose JSON fails the validation of the schema class, or the
\* llm_output of an exception, whose normalized form (normalize_issue_data)
\* holds the key, summary, description, issue_type, status, components,
\* labels and fix_versions of an issue and no field of an analysis.
IncompleteResponse(o) ==
    \/ o.kind = "Success" /\ o.detail = "invalid"
    \/ o.kind = "TransportError" /\ o.llm = "normalizable"

\* C21: a model response that lacks a required field, or holds it empty, is
\* not accepted as an analysis: the attempt that received it does not end
\* the call with an analysis, and the issue is not marked enriched on it.
C21_IncompleteNeverAccepted ==
    \A n \in DOMAIN outcomes :
        (IncompleteResponse(outcomes[n]) /\ Classify(outcomes[n]) # "unauthorized")
            => /\ ~(n = Len(outcomes) /\ result = "analysis")
               /\ ~(n = Len(outcomes) /\ ai_enriched = "True")

---------------------------------------------------------------------------
(* The HTTP handlers release_notes_handler and                             *)
(* release_notes_with_limit_handler, process_with_timeout and              *)
(* fetch_and_analyze_issues with its concurrent enrichment tasks.          *)
(* Coroutines are split at their await points: asyncio.gather in           *)
(* fetch_and_analyze_issues, kernel.invoke and asyncio.sleep in each task. *)
(* Everything else runs without yielding to the event loop.                *)

MaxIssues == 2

\* Route parameters, as sequences of characters
ProjectKeys == { <<"A", "_", "1">>, <<"A", "-", "1">>, << >> }

FixVersions == { <<"1", ".", "0">>, << >> }

IssueTypes == { "Bug", "Task" }

MaxResultsTexts ==
    { <<"2">>, <<"0">>, <<"-", "1">>, <<"1", "0", "0", "1">>, <<"a">> }

Requests ==
    [route : {"release-notes"}, proj : ProjectKeys, fixver : FixVersions,
     issuetype : IssueTypes, max_results : {<< >>}]
    \cup
    [route : {"release-notes-limit"}, proj : ProjectKeys,
     fixver : FixVersions, issuetype : IssueTypes,
     max_results : MaxResultsTexts]

\* re.match(r'^[A-Za-z0-9_]+$', proj) on the keys above
MatchesProjectKey(proj) ==
    /\ proj # << >>
    /\ \A n \in DOMAIN proj : proj[n] \in {"A", "_", "1"}

valid_issue_types == {"Bug", "Issue", "Epic", "Comp"}

\* validate_input: TRUE when the list of errors is empty
validate_input(proj, fixver, issuetype) ==
    /\ MatchesProjectKey(proj)
    /\ fixver # << >>
    /\ issuetype \in valid_issue_types

DigitValue(d) == CASE d = "0" -> 0 [] d = "1" -> 1 [] d = "2" -> 2

RECURSIVE DigitsValue(_, _)
DigitsValue(t, acc) ==
    IF t = << >> THEN acc
    ELSE DigitsValue(Tail(t), 10 * acc + DigitValue(Head(t)))

\* int(max_results_str): ok is FALSE where int raises ValueError
ParseInt(t) ==
    LET neg == t # << >> /\ Head(t) = "-"
        digits == IF neg THEN Tail(t) ELSE t
    IN  IF digits = << >> \/ \E n \in DOMAIN digits : digits[n] \notin {"0", "1", "2"}
        THEN [ok |-> FALSE, n |-> 0]
        ELSE [ok |-> TRUE,
              n |-> IF neg THEN 0 - DigitsValue(digits, 0)
                    ELSE DigitsValue(digits, 0)]

\* The checks of a handler before the configuration is read
RequestAccepted(req) ==
    /\ req.route = "release-notes-limit" => ParseInt(req.max_results).ok
    /\ validate_input(req.proj, req.fixver, req.issuetype)
    /\ req.route = "release-notes-limit" =>
            ~(ParseInt(req.max_results).n <= 0
              \/ ParseInt(req.max_results).n > 1000)

\* The environment of a run
\*   config_ok     the required environment variables are set
\*   enricher_ok   the Azure OpenAI service and the plugins initialize
\*   debug         the root logger's effective level is DEBUG
Environments ==
    [config_ok : BOOLEAN, enricher_ok : BOOLEAN, debug : BOOLEAN,
     create_local_files : BOOLEAN, create_confluence_pages : BOOLEAN]

\* What JiraAPIWrapper.search does with an exception of the jql call
SearchRaises(has401) ==
    IF has401 THEN "HttpUnauthorizedError" ELSE "JiraFetchError"

\* except Exception around search and parse_issues in
\* fetch_and_analyze_issues: whatever was raised, JiraFetchError is raised
FetchRaises(exc) == "JiraFetchError"

\* create_file_path('jql', self.config['jql']): the call passes two
\* arguments to a function of three required parameters
DebugDumpPath == "TypeError"

\* The except clauses of the handlers
StatusOf(exc) ==
    CASE exc = "HttpUnauthorizedError" -> 401
      [] exc = "TimeoutError"          -> 504
      [] exc = "JiraFetchError"        -> 502
      [] OTHER                         -> 500

\* A parsed issue before enrichment; content is what the merged analysis
\* fields hold
NewIssue == [ai_enriched |-> "unset", content |-> "none"]

\* A task at the start of the while loop: its position, the local variable
\* attempt, the kernel.invoke calls it has started, the class of the last
\* call's outcome and what add_ai_analysis_to_issue returned or raised
NewTask ==
    [pc |-> "loop", attempt |-> 0, calls |-> 0, last |-> "none",
     ret |-> "pending"]

BatchInit ==
    /\ LoopIdle
    /\ ExtractIdle
    /\ MergeIdle
    /\ AuxIdle
    /\ h_pc = "request"
    /\ request \in Requests
    /\ env \in Environments
    /\ search_result = "pending"
    /\ parsed = << >>
    /\ tasks = << >>
    /\ successful_enrichments = 0
    /\ sinks = << >>
    /\ raised = "none"
    /\ status_code = 0
    /\ actor = 0

\* The handler ends with an HttpResponse for the exception exc
Respond(exc) ==
    /\ raised' = exc
    /\ status_code' = StatusOf(exc)
    /\ h_pc' = "done"

\* int(max_results_str), validate_input, the range check of max_results
HValidate ==
    /\ h_pc = "request"
    /\ IF RequestAccepted(request)
       THEN /\ h_pc' = "config"
            /\ UNCHANGED status_code
       ELSE /\ h_pc' = "done"
            /\ status_code' = 400
    /\ actor' = 0
    /\ UNCHANGED <<request, env, search_result, parsed, tasks,
                   successful_enrichments, sinks, raised>>
    /\ UNCHANGED <<loopVars, extractVars, mergeVars, auxVars>>

\* Config() and get_enricher_config, outside the handler's try: a
\* ConfigurationError leaves the handler
HConfig ==
    /\ h_pc = "config"
    /\ IF env.config_ok
       THEN /\ h_pc' = "process"
            /\ UNCHANGED raised
       ELSE /\ h_pc' = "done"
            /\ raised' = "ConfigurationError"
    /\ actor' = 0
    /\ UNCHANGED <<request, env, search_result, parsed, tasks,
                   successful_enrichments, sinks, status_code>>
    /\ UNCHANGED <<loopVars, extractVars, mergeVars, auxVars>>

\* process_with_timeout up to the await: JiraEnricher(config)
PCreateEnricher ==
    /\ h_pc = "process"
    /\ IF env.enricher_ok
       THEN /\ h_pc' = "fetch"
            /\ UNCHANGED <<raised, status_code>>
       ELSE Respond("RuntimeError")
    /\ actor' = 0
    /\ UNCHANGED <<request, env, search_result, parsed, tasks,
                   successful_enrichments, sinks>>
    /\ UNCHANGED <<loopVars, extractVars, mergeVars, auxVars>>

\* What the issue source does: the wrapper cannot be built, the jql call
\* fails (with or without 401 in the message), the answer cannot be parsed,
\* or n issues come back
SearchOutcomes ==
    [kind : {"wrapper_error", "parse_error"}, has401 : {FALSE}, n : {0}]
    \cup [kind : {"jql_error"}, has401 : BOOLEAN, n : {0}]
    \cup [kind : {"issues"}, has401 : {FALSE}, n : 0..MaxIssues]

EmptyReturnsNever(p) == FALSE

\* if not parsed: return
EmptyReturns(p) == p = << >>

\* fetch_and_analyze_issues up to the end of the try block around search
\* and parse_issues
FSearch ==
    /\ h_pc = "fetch"
    /\ \E o \in SearchOutcomes :
        CASE o.kind = "wrapper_error" ->
                /\ Respond("JiraFetchError")
                /\ UNCHANGED <<search_result, parsed>>
          [] o.kind = "jql_error" ->
                /\ search_result' = SearchRaises(o.has401)
                /\ Respond(FetchRaises(search_result'))
                /\ UNCHANGED parsed
          [] o.kind = "parse_error" ->
                /\ search_result' = "unparsable"
                /\ Respond(FetchRaises("Exception"))
                /\ UNCHANGED parsed
          [] OTHER ->
                /\ search_result' = "issues"
                /\ parsed' = [i \in 1..o.n |-> NewIssue]
                /\ UNCHANGED raised
                /\ IF EmptyReturns(parsed')
                   THEN /\ h_pc' = "done"
                        /\ status_code' = 200
                   ELSE /\ h_pc' = "fetched"
                        /\ UNCHANGED status_code
    /\ actor' = 0
    /\ UNCHANGED <<request, env, tasks, successful_enrichments, sinks>>
    /\ UNCHANGED <<loopVars, extractVars, mergeVars, auxVars>>

FileCall(stage, issues) == [kind |-> "file", stage |-> stage, issues |-> issues]

PageCall(iss) == [kind |-> "page", stage |-> "enriched", issues |-> <<iss>>]

\* The dump of the raw issues at DEBUG level, then asyncio.gather creates
\* one task per issue and fetch_and_analyze_issues awaits them
FStartGather ==
    /\ h_pc = "fetched"
    /\ IF env.debug /\ DebugDumpPath = "TypeError"
       THEN /\ Respond("TypeError")
            /\ UNCHANGED <<tasks, sinks>>
       ELSE /\ sinks' = IF env.debug
                        THEN Append(sinks, FileCall("raw", parsed))
                        ELSE sinks
            /\ tasks' = [i \in DOMAIN parsed |-> NewTask]
            /\ h_pc' = "gather"
            /\ UNCHANGED <<raised, status_code>>
    /\ actor' = 0
    /\ UNCHANGED <<request, env, search_result, parsed,
                   successful_enrichments>>
    /\ UNCHANGED <<loopVars, extractVars, mergeVars, auxVars>>

---------------------------------------------------------------------------
(* The task of issue i: add_ai_analysis_to_issue(parsed[i]) *)

MergeTargetShared(i) == 1

\* The issue dict a task writes: its own argument
MergeTarget(i) == i

TaskFrame ==
    /\ UNCHANGED <<h_pc, request, env, search_result,
                   successful_enrichments, sinks, raised, status_code>>
    /\ UNCHANGED <<loopVars, extractVars, mergeVars, auxVars>>

\* One loop iteration up to the await of kernel.invoke
TInvoke(i) ==
    /\ tasks[i].pc = "loop"
    /\ tasks[i].attempt < max_attempts
    /\ tasks' = [tasks EXCEPT ![i].pc = "invoking",
                              ![i].calls = tasks[i].calls + 1]
    /\ actor' = i
    /\ UNCHANGED parsed
    /\ TaskFrame

\* The while condition fails: analyze_issue_with_ai returns None, and
\* add_ai_analysis_to_issue marks the issue and returns False
TExhausted(i) ==
    /\ tasks[i].pc = "loop"
    /\ ~(tasks[i].attempt < max_attempts)
    /\ ExhaustedResult = "None"
    /\ parsed' = [parsed EXCEPT ![MergeTarget(i)].ai_enriched = "False"]
    /\ tasks' = [tasks EXCEPT ![i].pc = "done", ![i].ret = "False"]
    /\ actor' = i
    /\ TaskFrame

CancelledByAttemptTimeoutAll(i) == DOMAIN tasks

\* The calls that asyncio.wait_for(self.kernel.invoke(...), timeout=60) of
\* task i cancels when its timeout expires: the call it wraps
CancelledByAttemptTimeout(i) == {i}

\* except asyncio.TimeoutError: the per-attempt timeout of this task's call
TOnTimeout(i) ==
    /\ tasks[i].pc = "invoking"
    /\ \E o \in Outcomes : Classify(o) = "timeout"
    /\ tasks' = [j \in DOMAIN tasks |->
                    IF j \in CancelledByAttemptTimeout(i)
                       /\ tasks[j].pc = "invoking"
                    THEN [tasks[j] EXCEPT !.pc = "sleeping",
                                          !.last = "timeout",
                                          !.attempt = tasks[j].attempt + 1]
                    ELSE tasks[j]]
    /\ actor' = i
    /\ UNCHANGED parsed
    /\ TaskFrame

TOnParameterError(i) ==
    /\ tasks[i].pc = "invoking"
    /\ \E o \in Outcomes : Classify(o) = "parameter"
    /\ tasks' = [tasks EXCEPT ![i].pc = "loop",
                              ![i].last = "parameter",
                              ![i].attempt = tasks[i].attempt + 1]
    /\ actor' = i
    /\ UNCHANGED parsed
    /\ TaskFrame

\* HttpUnauthorizedError leaves analyze_issue_with_ai and
\* add_ai_analysis_to_issue
TOnUnauthorized(i) ==
    /\ tasks[i].pc = "invoking"
    /\ \E o \in Outcomes : Classify(o) = "unauthorized"
    /\ tasks' = [tasks EXCEPT ![i].pc = "done",
                              ![i].last = "unauthorized",
                              ![i].ret = EnrichReturn("HttpUnauthorizedError")]
    /\ actor' = i
    /\ UNCHANGED parsed
    /\ TaskFrame

\* An analysis is returned and merged into the issue
TOnSuccess(i) ==
    /\ tasks[i].pc = "invoking"
    /\ \E o \in Outcomes :
        /\ Classify(o) \in {"success", "fallback"}
        /\ parsed' = [parsed EXCEPT ![MergeTarget(i)] =
                        [ai_enriched |-> "True",
                         content |-> IF IncompleteResponse(o)
                                     THEN "blank" ELSE "full"]]
    /\ tasks' = [tasks EXCEPT ![i].pc = "done",
                              ![i].last = "success",
                              ![i].ret = EnrichReturn("analysis")]
    /\ actor' = i
    /\ TaskFrame

\* except ValueError / except Exception, then the exponential backoff
TOnRetry(i) ==
    /\ tasks[i].pc = "invoking"
    /\ \E o \in Outcomes : Classify(o) \in {"value_error", "retry"}
    /\ tasks' = [tasks EXCEPT
                    ![i].attempt = tasks[i].attempt + 1,
                    ![i].last = "retry",
                    ![i].pc = IF tasks[i].attempt + 1 < max_attempts
                              THEN "sleeping" ELSE "loop"]
    /\ actor' = i
    /\ UNCHANGED parsed
    /\ TaskFrame

\* asyncio.sleep returns
TWake(i) ==
    /\ tasks[i].pc = "sleeping"
    /\ tasks' = [tasks EXCEPT ![i].pc = "loop"]
    /\ actor' = i
    /\ UNCHANGED parsed
    /\ TaskFrame

---------------------------------------------------------------------------
(* fetch_and_analyze_issues from asyncio.gather on *)

GatherDoneFirst(t) == \E i \in DOMAIN t : t[i].pc = "done"

\* asyncio.gather returns the list of results when every task has returned
GatherDone(t) == \A i \in DOMAIN t : t[i].pc = "done"

CountAll(t) == Len(t)

\* sum(1 for result in enrichment_results if result)
CountSuccessful(t) == Cardinality({ i \in DOMAIN t : t[i].ret = "True" })

AwaitPointsWithSinks == {"gather", "confluence"}

\* The positions at which fetch_and_analyze_issues is suspended in an await
AwaitPoints == {"gather"}

\* _has_meaningful_content
HasMeaningfulContent(iss) == iss.content = "full"

\* asyncio.gather returns; the successes are counted
GatherReturn ==
    /\ h_pc = "gather"
    /\ GatherDone(tasks)
    /\ \A i \in DOMAIN tasks :
            tasks[i].pc = "done" => tasks[i].ret \in {"True", "False"}
    /\ successful_enrichments' = CountSuccessful(tasks)
    /\ h_pc' = "persist"
    /\ actor' = 0
    /\ UNCHANGED <<request, env, search_result, parsed, tasks, sinks,
                   raised, status_code>>
    /\ UNCHANGED <<loopVars, extractVars, mergeVars, auxVars>>

\* asyncio.gather propagates the first exception of a task; the other
\* tasks are not cancelled
GatherRaise ==
    /\ h_pc = "gather"
    /\ \E i \in DOMAIN tasks :
        /\ tasks[i].pc = "done"
        /\ tasks[i].ret \notin {"True", "False"}
        /\ Respond(tasks[i].ret)
    /\ actor' = 0
    /\ UNCHANGED <<request, env, search_result, parsed, tasks,
                   successful_enrichments, sinks>>
    /\ UNCHANGED <<loopVars, extractVars, mergeVars, auxVars>>

\* asyncio.wait_for in process_with_timeout: the timeout cancels
\* fetch_and_analyze_issues at its await, and gather cancels its tasks;
\* process_with_timeout raises TimeoutError
BatchTimeout ==
    /\ h_pc \in AwaitPoints
    /\ tasks' = [i \in DOMAIN tasks |->
                    IF tasks[i].pc = "done" THEN tasks[i]
                    ELSE [tasks[i] EXCEPT !.pc = "cancelled"]]
    /\ Respond("TimeoutError")
    /\ actor' = 0
    /\ UNCHANGED <<request, env, search_result, parsed,
                   successful_enrichments, sinks>>
    /\ UNCHANGED <<loopVars, extractVars, mergeVars, auxVars>>

\* if create_local_files: save_issues_to_file(parsed, ...) for the file
\* types to save, ['json'] with the configuration the handlers build
FSaveFiles ==
    /\ h_pc = "persist"
    /\ sinks' = IF env.create_local_files
                THEN Append(sinks, FileCall("enriched", parsed))
                ELSE sinks
    /\ h_pc' = "confluence"
    /\ actor' = 0
    /\ UNCHANGED <<request, env, search_result, parsed, tasks,
                   successful_enrichments, raised, status_code>>
    /\ UNCHANGED <<loopVars, extractVars, mergeVars, auxVars>>

\* Pages of the issues from position i on
RECURSIVE Pages(_, _)
Pages(p, i) ==
    IF i > Len(p) THEN << >>
    ELSE (IF p[i].ai_enriched = "True" /\ HasMeaningfulContent(p[i])
          THEN <<PageCall(p[i])>> ELSE << >>)
         \o Pages(p, i + 1)

\* The import of os inside the local-files branch makes os a local variable
\* of fetch_and_analyze_issues: it is bound only when that branch ran
OsBound(cfg) == cfg.create_local_files

\* if create_confluence_pages: os.environ is read, which raises
\* UnboundLocalError where os is not bound; else page_create for every
\* enriched issue with meaningful content; then the result dict is returned
\* and the handler answers
FConfluence ==
    /\ h_pc = "confluence"
    /\ IF env.create_confluence_pages /\ ~OsBound(env)
       THEN /\ Respond("UnboundLocalError")
            /\ UNCHANGED sinks
       ELSE /\ sinks' = IF env.create_confluence_pages
                        THEN sinks \o Pages(parsed, 1)
                        ELSE sinks
            /\ h_pc' = "done"
            /\ status_code' = 200
            /\ UNCHANGED raised
    /\ actor' = 0
    /\ UNCHANGED <<request, env, search_result, parsed, tasks,
                   successful_enrichments>>
    /\ UNCHANGED <<loopVars, extractVars, mergeVars, auxVars>>

BatchNext ==
    \/ HValidate
    \/ HConfig
    \/ PCreateEnricher
    \/ FSearch
    \/ FStartGather
    \/ \E i \in DOMAIN tasks : TInvoke(i)
    \/ \E i \in DOMAIN tasks : TExhausted(i)
    \/ \E i \in DOMAIN tasks : TOnTimeout(i)
    \/ \E i \in DOMAIN tasks : TOnParameterError(i)
    \/ \E i \in DOMAIN tasks : TOnUnauthorized(i)
    \/ \E i \in DOMAIN tasks : TOnSuccess(i)
    \/ \E i \in DOMAIN tasks : TOnRetry(i)
    \/ \E i \in DOMAIN tasks : TWake(i)
    \/ GatherReturn
    \/ GatherRaise
    \/ BatchTimeout
    \/ FSaveFiles
    \/ FConfluence

BatchSpec == BatchInit /\ [][BatchNext]_vars

---------------------------------------------------------------------------
(* Claims about the batch *)

Returned(t) == t.pc = "done" /\ t.ret \in {"True", "False"}

AllReturned == tasks # << >> /\ \A i \in DOMAIN tasks : Returned(tasks[i])

Enriched == { i \in DOMAIN parsed : parsed[i].ai_enriched = "True" }

C23_SinkAfterEnrichment ==
    sinks # << >> =>
        /\ h_pc \in {"confluence", "done"}
        /\ AllReturned

C23_Witness ==
    /\ Len(sinks) = 2
    /\ sinks[1].kind = "file"
    /\ sinks[2].kind = "page"
    /\ Len(parsed) = 2
    /\ tasks[1].ret = "False"
    /\ tasks[1].attempt = 3
    /\ tasks[2].ret = "True"

\* The failures the error taxonomy calls fatal, and the batch timeout
FatalOrTimeout ==
    raised \in {"HttpUnauthorizedError", "JiraFetchError", "TimeoutError",
                "RuntimeError", "ConfigurationError"}

\* C24: a run over a non-empty batch without fatal failure and without
\* batch timeout ends with status 200, and where local files are written
\* the file holds every fetched issue, the failed ones flagged not enriched;
\* this also when no enrichment succeeded.
C24_AllIssuesPersisted ==
    (h_pc = "done" /\ parsed # << >> /\ ~FatalOrTimeout) =>
        /\ status_code = 200
        /\ \A i \in DOMAIN parsed :
                tasks[i].ret = "False" => parsed[i].ai_enriched = "False"
        /\ env.create_local_files =>
                \E k \in DOMAIN sinks : sinks[k] = FileCall("enriched", parsed)

---------------------------------------------------------------------------
(* Ownership of the issues among the concurrent tasks *)

\* C25: in every step of a batch, an issue that changes is the issue of the
\* task taking the step, and while the tasks exist the configuration and the
\* request are not modified.
C25_OwnIssueOnly ==
    [][/\ \A j \in DOMAIN parsed :
            (j \in DOMAIN parsed' /\ parsed'[j] # parsed[j]) => actor' = j
       /\ tasks # << >> => (env' = env /\ request' = request)]_vars

\* Two tasks ran concurrently to different outcomes, each on its own issue
C25_Witness ==
    /\ Len(parsed) = 2
    /\ Len(tasks) = 2
    /\ tasks[2].pc = "done" /\ tasks[2].ret = "True"
    /\ tasks[1].pc = "done" /\ tasks[1].ret = "False"
    /\ parsed[2].ai_enriched = "True"
    /\ parsed[1].ai_enriched = "False"

\* The step in which the per-attempt timeout of task i's call expires
AttemptTimeoutStep(i) ==
    /\ actor' = i
    /\ tasks[i].pc = "invoking"
    /\ tasks'[i].pc = "sleeping"
    /\ tasks'[i].last = "timeout"

\* C26: the step in which the per-attempt timeout of one task's call expires
\* leaves every sibling task as it is (position, attempt counter, number of
\* calls, result), and leaves the issues and the state of the batch as they
\* are.
C26_TimeoutCancelsOwnCall ==
    [][\A i \in DOMAIN tasks :
          AttemptTimeoutStep(i) =>
            /\ \A j \in DOMAIN tasks \ {i} : tasks'[j] = tasks[j]
            /\ tasks'[i].attempt = tasks[i].attempt + 1
            /\ parsed' = parsed
            /\ h_pc' = h_pc
            /\ raised' = raised]_vars

\* Task 1 timed out while the first call of task 2 is in flight, and that
\* call is still in flight
C26_Witness ==
    /\ Len(tasks) = 2
    /\ h_pc = "gather"
    /\ tasks[1].last = "timeout"
    /\ tasks[1].pc = "sleeping"
    /\ tasks[1].attempt = 1
    /\ tasks[2].pc = "invoking"
    /\ tasks[2].attempt = 0
    /\ tasks[2].calls = 1

---------------------------------------------------------------------------
(* The batch timeout *)

\* C27: a run that ends with the batch timeout (TimeoutError, status 504)
\* has made no call to a persistence sink: no file saved, no page created.
C27_TimeoutPersistsNothing ==
    raised = "TimeoutError" =>
        /\ status_code = 504
        /\ sinks = << >>

\* The batch timed out after an issue had been enriched in memory and while
\* another enrichment was running; nothing was persisted
C27_Witness ==
    /\ raised = "TimeoutError"
    /\ status_code = 504
    /\ Len(tasks) = 2
    /\ tasks[1].ret = "True"
    /\ parsed[1].ai_enriched = "True"
    /\ tasks[2].pc = "cancelled"
    /\ env.create_local_files
    /\ sinks = << >>

---------------------------------------------------------------------------
(* The status the handler answers with *)

\* The status the documented mapping gives a finished run of an accepted
\* request: what the issue source and the tasks reported decides it
ExpectedStatus ==
    IF search_result = "HttpUnauthorizedError" THEN 401
    ELSE IF raised = "HttpUnauthorizedError" THEN 401
    ELSE IF raised = "JiraFetchError" THEN 502
    ELSE IF raised = "TimeoutError" THEN 504
    ELSE IF raised = "none" THEN 200
    ELSE 500

\* C28: a run the handler answers has one status: 400 for a rejected
\* request, and then no enricher was built and no upstream service was
\* contacted; for an accepted request 401 when an upstream service reported
\* unauthorized, 502 when the fetch failed, 504 on the batch timeout, 500 on
\* any other error and 200 when processing completed.
C28_StatusMapping ==
    (h_pc = "done" /\ raised # "ConfigurationError") =>
        /\ ~RequestAccepted(request) =>
                /\ status_code = 400
                /\ raised = "none"
                /\ search_result = "pending"
                /\ tasks = << >>
                /\ sinks = << >>
        /\ RequestAccepted(request) => status_code = ExpectedStatus

\* C29: when the jql call of the issue source fails with 401 the run ends
\* with HttpUnauthorizedError and status 401, and when it fails otherwise
\* the run ends with JiraFetchError and status 502.
C29_DistinctPropagation ==
    h_pc = "done" =>
        /\ search_result = "HttpUnauthorizedError" =>
                (raised = "HttpUnauthorizedError" /\ status_code = 401)
        /\ search_result \in {"JiraFetchError", "unparsable"} =>
                (raised = "JiraFetchError" /\ status_code = 502)

---------------------------------------------------------------------------
(* An empty fetch *)

\* C30: a sink call is made only for a non-empty list of issues; a run whose
\* fetch yields no issue starts no task, so makes no model call, makes no
\* sink call and ends with status 200 and no exception.
C30_EmptyFetch ==
    /\ sinks # << >> => parsed # << >>
    /\ (search_result = "issues" /\ parsed = << >>) =>
            /\ h_pc = "done"
            /\ tasks = << >>
            /\ sinks = << >>
            /\ raised = "none"
            /\ status_code = 200

\* The fetch returned no issue where both sinks are switched on
C30_Witness ==
    /\ h_pc = "done"
    /\ search_result = "issues"
    /\ parsed = << >>
    /\ status_code = 200
    /\ env.create_local_files
    /\ env.create_confluence_pages

---------------------------------------------------------------------------
(* The snippet of an issue and the arguments of kernel.invoke              *)
(*                                                                         *)
(* Two calls of add_ai_analysis_to_issue on two issue dicts, each followed *)
(* up to the kernel.invoke call of analyze_issue_with_ai. Field values are *)
(* strings; null is what issue.get(k) gives for a key the dict lacks.      *)

null == "null"

IssueTypeNames == {"Epic", "EPIC", "Bug"}

\* str.lower on the issue type names
Lower(name) ==
    CASE name \in {"Epic", "EPIC", "epic"} -> "epic"
      [] name \in {"Bug", "BUG", "bug"}    -> "bug"
      [] OTHER                             -> name

\* Issue dicts as parse_issues builds them: the fields the snippet reads,
\* fields it does not read (assignee, reporter, status), and children, which
\* parse_issues does not set
SnippetIssues ==
    { [f \in { g \in DOMAIN r : r[g] # "ABSENT" } |-> r[f]] : r \in
        [key         : {"ABC-1"},
         summary     : {"s1", "s2"},
         description : {"d"},
         priority    : {"High"},
         components  : {"ui"},
         comments    : {"c"},
         imgURLs     : {"u"},
         issuetype   : IssueTypeNames,
         parent      : {"None", "ABC-0"},
         children    : {"ABSENT", "ABC-2"},
         assignee    : {"ann", "bob"},
         reporter    : {"ann", "bob"},
         status      : {"Open"}] }

BaseKeys ==
    <<"key", "summary", "description", "priority", "components", "comments",
      "imgURLs">>

SnippetKeysWithAssignee(iss) == BaseKeys \o <<"assignee">>

\* keys, with children and parent added for an epic
SnippetKeys(iss) ==
    IF Lower(Get(iss, "issuetype", "")) = "epic"
    THEN BaseKeys \o <<"children", "parent">>
    ELSE BaseKeys

\* snippet = {k: issue.get(k) for k in keys}
Snippet(iss) ==
    LET keys == SnippetKeys(iss)
    IN  [k \in { keys[i] : i \in DOMAIN keys } |-> Get(iss, k, null)]

\* json.dumps of the snippet: its items in the order of the key list
DumpSnippet(iss, sn) ==
    LET keys == SnippetKeys(iss)
    IN  [i \in DOMAIN keys |-> <<keys[i], sn[keys[i]]>>]

\* The prompt function that is_type.lower() selects
PromptFunction(is_type) ==
    CASE Lower(is_type) = "bug"  -> "bugFunction"
      [] Lower(is_type) = "epic" -> "epicFunction"
      [] OTHER                   -> "issueFunction"

\* The schema class that is_type.lower() selects
SchemaClass(is_type) ==
    CASE Lower(is_type) = "bug"  -> "JiraBugAnalysis"
      [] Lower(is_type) = "epic" -> "JiraEpicAnalysis"
      [] OTHER                   -> "JiraIssueAnalysis"

\* The arguments of kernel.invoke for an issue: the prompt function,
\* issue_type, issue_info, output_schema (the dump of the schema instance
\* built from the snippet) and the prompt additions
InvokeArguments(iss, sn) ==
    LET is_type == Get(iss, "issuetype", "")
    IN  [func          |-> PromptFunction(is_type),
         issue_type    |-> Lower(is_type),
         issue_info    |-> DumpSnippet(iss, sn),
         output_schema |-> <<SchemaClass(is_type), DumpSnippet(iss, sn)>>,
         additions     |-> PromptAdditions(deployment)]

Calls == 1..2

SnippetInit ==
    /\ LoopIdle
    /\ ExtractIdle
    /\ MergeIdle
    /\ BatchIdle
    /\ ConfIdle
    /\ PageIdle
    /\ SearchIdle
    /\ s_pc = [c \in Calls |-> "start"]
    /\ s_issue \in [Calls -> SnippetIssues]
    /\ s_snippet = [c \in Calls |-> << >>]
    /\ s_request = [c \in Calls |-> << >>]

\* add_ai_analysis_to_issue builds the snippet
SBuildSnippet(c) ==
    /\ s_pc[c] = "start"
    /\ s_snippet' = [s_snippet EXCEPT ![c] = Snippet(s_issue[c])]
    /\ s_pc' = [s_pc EXCEPT ![c] = "snippet"]
    /\ UNCHANGED <<s_issue, s_request>>
    /\ UNCHANGED <<coreVars, confVars, pageVars, searchVars>>

\* analyze_issue_with_ai calls kernel.invoke
SInvoke(c) ==
    /\ s_pc[c] = "snippet"
    /\ s_request' = [s_request EXCEPT
                        ![c] = InvokeArguments(s_issue[c], s_snippet[c])]
    /\ s_pc' = [s_pc EXCEPT ![c] = "invoked"]
    /\ UNCHANGED <<s_issue, s_snippet>>
    /\ UNCHANGED <<coreVars, confVars, pageVars, searchVars>>

SnippetNext ==
    \/ \E c \in Calls : SBuildSnippet(c)
    \/ \E c \in Calls : SInvoke(c)

SnippetSpec == SnippetInit /\ [][SnippetNext]_vars

\* The fields the model may see of an issue of the given type
AllowList(issuetype) ==
    {"key", "summary", "description", "priority", "components", "comments",
     "imgURLs"}
        \cup (IF Lower(issuetype) = "epic" THEN {"children", "parent"} ELSE {})

\* Two issues agree on a field: both lack it or both hold the same value
AgreeOn(a, b, f) ==
    /\ (f \in DOMAIN a) = (f \in DOMAIN b)
    /\ f \in DOMAIN a => a[f] = b[f]

\* C31: the snippet's keys are the allow-list of the issue's type, with
\* children and parent exactly for an epic in any capitalisation, and two
\* issues of one type that agree on the allow-listed fields give the same
\* kernel.invoke arguments whatever their other fields hold.
C31_SnippetAllowList ==
    /\ \A c \in DOMAIN s_pc :
            s_pc[c] # "start" =>
                DOMAIN s_snippet[c] = AllowList(s_issue[c]["issuetype"])
    /\ \A c, d \in DOMAIN s_pc :
            (/\ s_pc[c] = "invoked"
             /\ s_pc[d] = "invoked"
             /\ s_issue[c]["issuetype"] = s_issue[d]["issuetype"]
             /\ \A f \in AllowList(s_issue[c]["issuetype"]) :
                    AgreeOn(s_issue[c], s_issue[d], f))
                => s_request[c] = s_request[d]

\* Two epics, the type written in capitals, that differ in assignee and
\* reporter only were both sent, with children and parent in the snippet
C31_Witness ==
    /\ s_pc = [c \in Calls |-> "invoked"]
    /\ s_issue[1]["issuetype"] = "EPIC"
    /\ s_issue[2]["issuetype"] = "EPIC"
    /\ s_issue[1]["assignee"] # s_issue[2]["assignee"]
    /\ s_issue[1]["reporter"] # s_issue[2]["reporter"]
    /\ \A f \in AllowList("EPIC") : AgreeOn(s_issue[1], s_issue[2], f)
    /\ "children" \in DOMAIN s_issue[1]
    /\ s_snippet[1]["children"] = "ABC-2"
    /\ s_request[1] = s_request[2]

---------------------------------------------------------------------------
(* The Confluence block of fetch_and_analyze_issues                        *)
(*                                                                         *)
(* The block runs after the enrichment, without an await. A setting is a   *)
(* string, null where the key or the environment variable is missing. An   *)
(* issue carries its type, its flag and the analysis fields that           *)
(* _has_meaningful_content reads.                                          *)

MaxPageIssues == 2

\* bool(v) of a setting
Truthy(v) == v \notin {null, ""}

\* a or b
Or(a, b) == IF Truthy(a) THEN a ELSE b

ConfluenceConfigs ==
    [create_local_files         : BOOLEAN,
     create_confluence_pages    : {TRUE},
     confluence_space           : {null, "SP"},
     confluence_url             : {null, "http://c"},
     confluence_parent_id       : {null, "42"},
     confluence_parent_page_id  : {null, "43"}]
    \cup
    [create_local_files         : {TRUE},
     create_confluence_pages    : {FALSE},
     confluence_space           : {"SP"},
     confluence_url             : {"http://c"},
     confluence_parent_id       : {"42"},
     confluence_parent_page_id  : {null}]

ParentIdEnviron == {null, "", "7"}

BlankFields ==
    [technical_summary |-> << >>, executive_summary |-> << >>,
     cause |-> << >>, fix |-> << >>, reasoning |-> << >>,
     inferredCategories |-> 0]

\* The issues after the enrichment: the analysis fields of the issue's
\* type, blank or filled, and the flag
EnrichedIssues ==
    { [BlankFields EXCEPT !.technical_summary = t, !.cause = c, !.fix = f]
        @@ [issuetype |-> "Bug", ai_enriched |-> "True"] :
            t \in {<< >>, <<SP, SP>>, <<"t">>},
            c \in {<< >>, <<"c">>}, f \in {<< >>, <<"f">>} }
    \cup
    { [BlankFields EXCEPT !.technical_summary = t, !.executive_summary = e]
        @@ [issuetype |-> "Epic", ai_enriched |-> "True"] :
            t \in {<< >>, <<"t">>}, e \in {<<SP, SP>>, <<"e">>} }
    \cup
    { [BlankFields EXCEPT !.reasoning = r, !.inferredCategories = n]
        @@ [issuetype |-> "Story", ai_enriched |-> "True"] :
            r \in {<< >>, <<"r">>}, n \in {0, 1} }
    \cup
    { [technical_summary |-> <<"t">>, executive_summary |-> <<"e">>,
       cause |-> <<"c">>, fix |-> <<"f">>, reasoning |-> <<"r">>,
       inferredCategories |-> 1,
       issuetype |-> ty, ai_enriched |-> "False"] :
            ty \in {"Bug", "Epic", "Story"} }

has_meaningful_content_always(iss) == TRUE

\* _has_meaningful_content
has_meaningful_content(iss) ==
    LET issue_type == Lower(iss.issuetype)
    IN  CASE issue_type = "bug" ->
                /\ Strip(iss.technical_summary) # << >>
                /\ (Strip(iss.cause) # << >> \/ Strip(iss.fix) # << >>)
          [] issue_type = "epic" ->
                \/ Strip(iss.technical_summary) # << >>
                \/ Strip(iss.executive_summary) # << >>
          [] OTHER ->
                /\ Strip(iss.reasoning) # << >>
                /\ iss.inferredCategories > 0

\* What page_create answers: a page, an error record, or something else
PageCreateAnswers == {"page", "error", "other"}

\* page_create answers a page_data without space with an error record
PageCreateAnswer(page_data, o) ==
    IF ~Truthy(page_data.space) THEN "error" ELSE o

ConfluenceInit ==
    /\ LoopIdle
    /\ ExtractIdle
    /\ MergeIdle
    /\ BatchIdle
    /\ SnippetIdle
    /\ PageIdle
    /\ SearchIdle
    /\ c_pc = "start"
    /\ c_environ \in ParentIdEnviron
    /\ c_config \in ConfluenceConfigs
    /\ c_issues \in UNION { [1..n -> EnrichedIssues] : n \in 1..MaxPageIssues }
    /\ c_i = 0
    /\ c_parent_id = null
    /\ c_flag = c_config.create_confluence_pages
    /\ c_calls = << >>
    /\ c_skipped = 0
    /\ c_success = 0
    /\ c_raised = "none"

ConfluenceFrame ==
    /\ UNCHANGED <<c_environ, c_config, c_issues>>
    /\ UNCHANGED <<coreVars, snippetVars, pageVars, searchVars>>

\* if create_confluence_pages: the settings are resolved and checked
CResolve ==
    /\ c_pc = "start"
    /\ IF ~c_config.create_confluence_pages
       THEN /\ c_pc' = "done"
            /\ UNCHANGED <<c_parent_id, c_flag, c_i, c_raised>>
       ELSE IF ~OsBound(c_config)
       THEN /\ c_pc' = "raised"
            /\ c_raised' = "UnboundLocalError"
            /\ UNCHANGED <<c_parent_id, c_flag, c_i>>
       ELSE LET parent_id == Or(c_environ,
                                Or(c_config.confluence_parent_id,
                                   c_config.confluence_parent_page_id))
                missing_configs ==
                    \/ ~Truthy(c_config.confluence_space)
                    \/ ~Truthy(parent_id)
                    \/ ~Truthy(c_config.confluence_url)
            IN  /\ c_parent_id' = parent_id
                /\ c_flag' = ~missing_configs
                /\ c_i' = 1
                /\ c_pc' = "loop"
                /\ UNCHANGED c_raised
    /\ UNCHANGED <<c_calls, c_skipped, c_success>>
    /\ ConfluenceFrame

\* One iteration of for issue in parsed
CIssue ==
    /\ c_pc = "loop"
    /\ c_i <= Len(c_issues)
    /\ LET iss == c_issues[c_i]
       IN  IF iss.ai_enriched = "True" /\ has_meaningful_content(iss)
           THEN LET final_parent_id == c_environ
                    page_data == [space     |-> c_config.confluence_space,
                                  parent_id |-> final_parent_id]
                IN  /\ c_parent_id' = final_parent_id
                    /\ c_calls' = Append(c_calls,
                                    [issue |-> c_i, page_data |-> page_data])
                    /\ \E o \in PageCreateAnswers :
                          c_success' =
                            IF PageCreateAnswer(page_data, o) = "page"
                            THEN c_success + 1 ELSE c_success
                    /\ UNCHANGED c_skipped
           ELSE /\ c_skipped' = c_skipped + 1
                /\ UNCHANGED <<c_parent_id, c_calls, c_success>>
    /\ c_i' = c_i + 1
    /\ UNCHANGED <<c_pc, c_flag, c_raised>>
    /\ ConfluenceFrame

\* The loop is over: the counters are reported
CReport ==
    /\ c_pc = "loop"
    /\ c_i > Len(c_issues)
    /\ c_pc' = "done"
    /\ UNCHANGED <<c_i, c_parent_id, c_flag, c_calls, c_skipped, c_success,
                   c_raised>>
    /\ ConfluenceFrame

ConfluenceNext ==
    \/ CResolve
    \/ CIssue
    \/ CReport

ConfluenceSpec == ConfluenceInit /\ [][ConfluenceNext]_vars

---------------------------------------------------------------------------
(* Properties of the Confluence block *)

\* The parent id the settings resolve to: the environment variable, else
\* confluence_parent_id, else confluence_parent_page_id
ResolvedParentId ==
    IF Truthy(c_environ) THEN c_environ
    ELSE IF Truthy(c_config.confluence_parent_id)
         THEN c_config.confluence_parent_id
         ELSE c_config.confluence_parent_page_id

\* Page creation is enabled and a required setting is missing
RequiredSettingMissing ==
    /\ c_pc # "idle"
    /\ c_config.create_confluence_pages
    /\ \/ ~Truthy(c_config.confluence_space)
       \/ ~Truthy(c_config.confluence_url)
       \/ ~Truthy(ResolvedParentId)

\* C32: when page creation is enabled and the space key, the parent page id
\* or the Confluence URL is missing, no page_create call is made in the run.
C32_MissingSettingAborts ==
    RequiredSettingMissing => c_calls = << >>

\* C33: every page_create call carries the resolved parent id, which is not
\* empty whenever the environment variable or one of the two configuration
\* keys is set, and is the same for every issue of the batch.
C33_ResolvedParentSent ==
    c_pc # "idle" =>
        \A k \in DOMAIN c_calls :
            /\ c_calls[k].page_data.parent_id = ResolvedParentId
            /\ Truthy(ResolvedParentId) =>
                    Truthy(c_calls[k].page_data.parent_id)
            /\ c_calls[k].page_data.parent_id = c_calls[1].page_data.parent_id

\* A field value with a character that is not white space
NonBlank(v) == \E i \in DOMAIN v : v[i] # SP

\* Meaningful content as the behaviour is stated: by issue type
MeaningfulAsStated(iss) ==
    IF iss.issuetype \in {"Bug", "bug", "BUG"}
    THEN NonBlank(iss.technical_summary)
            /\ (NonBlank(iss.cause) \/ NonBlank(iss.fix))
    ELSE IF iss.issuetype \in {"Epic", "epic", "EPIC"}
    THEN NonBlank(iss.technical_summary) \/ NonBlank(iss.executive_summary)
    ELSE NonBlank(iss.reasoning) /\ iss.inferredCategories >= 1

\* The issues before the loop position that get no page
Unwanted ==
    { j \in DOMAIN c_issues :
        /\ j < c_i
        /\ ~(c_issues[j].ai_enriched = "True"
                /\ MeaningfulAsStated(c_issues[j])) }

\* C34: page_create is called for an issue only if its flag is true and it
\* has meaningful content for its type, and every other issue the loop has
\* passed is counted as skipped.
C34_PagesOnlyForMeaningful ==
    c_pc \in {"loop", "done"} =>
        /\ \A k \in DOMAIN c_calls :
                /\ c_issues[c_calls[k].issue].ai_enriched = "True"
                /\ MeaningfulAsStated(c_issues[c_calls[k].issue])
        /\ c_skipped = Cardinality(Unwanted)

\* A batch of an enriched bug with content, which got its page, and an
\* enriched bug whose technical summary is white space, which was skipped
C34_Witness ==
    /\ c_pc = "done"
    /\ Len(c_issues) = 2
    /\ c_issues[1].issuetype = "Bug"
    /\ c_issues[1].technical_summary = <<"t">>
    /\ c_issues[2].ai_enriched = "True"
    /\ c_issues[2].issuetype = "Bug"
    /\ c_issues[2].technical_summary = <<SP, SP>>
    /\ c_issues[2].cause = <<"c">>
    /\ Len(c_calls) = 1
    /\ c_calls[1].issue = 1
    /\ c_skipped = 1
    /\ c_success = 1

---------------------------------------------------------------------------
(* JiraAPIWrapper.page_create                                              *)
(*                                                                         *)
(* query is the text of a JSON value. p_trace lists the calls made to the  *)
(* Confluence client with what each answered. p_ret is "page" for the dict *)
(* of a page, "error" for an error record, "True" for the boolean, or the  *)
(* name of the exception raised.                                           *)

\* The texts given as query: not JSON, JSON that is not an object, and
\* objects with or without space, title, body and parent_id
PageQueries ==
    { [kind |-> "bad_json"], [kind |-> "array"] }
    \cup [kind      : {"object"},
          space     : {null, "SP"},
          title     : {"", "T"},
          body      : {"", "B"},
          parent_id : {null, "42", "abc"}]

\* create_params without parent_id
NoParent == [type |-> "absent", v |-> null]

\* str.isdigit on the parent ids
IsDigit(v) == v \in {"42", "7"}

\* How initialize_confluence_client ends
ClientInits == {"True", "False", "raises"}

\* What get_space, get_page_by_id and create_page of the Confluence client
\* do: answer a dict, answer None or an error dict, or raise
SpaceAnswers == {"space", "None", "raises"}

PageByIdAnswers == {"page", "None", "raises", "raises_permission"}

CreateAnswers == {"page", "error", "duplicate", "raises", "raises_duplicate"}

PageCreateInit ==
    /\ LoopIdle
    /\ ExtractIdle
    /\ MergeIdle
    /\ BatchIdle
    /\ SnippetIdle
    /\ ConfIdle
    /\ SearchIdle
    /\ p_pc = "init"
    /\ p_query \in PageQueries
    /\ p_environ \in {null, "7"}
    /\ p_parent = NoParent
    /\ p_trace = << >>
    /\ p_ret = "pending"

PageFrame ==
    /\ UNCHANGED <<p_query, p_environ>>
    /\ UNCHANGED <<coreVars, snippetVars, confVars, searchVars>>

\* return of an error record, of a result, or an exception leaving
PageEnds(ret) ==
    /\ p_ret' = ret
    /\ p_pc' = "done"

\* initialize_confluence_client and the check of self.confluence
PInitClient ==
    /\ p_pc = "init"
    /\ \E o \in ClientInits :
          IF o = "True"
          THEN p_pc' = "parse" /\ UNCHANGED p_ret
          ELSE PageEnds("error")
    /\ UNCHANGED <<p_parent, p_trace>>
    /\ PageFrame

\* json.loads(query), dict(params), and the check of space, title and body
PParse ==
    /\ p_pc = "parse"
    /\ CASE p_query.kind = "bad_json" -> PageEnds("error")
         [] p_query.kind = "array"    -> PageEnds("TypeError")
         [] OTHER ->
              IF \/ ~Truthy(p_query.space)
                 \/ ~Truthy(p_query.title)
                 \/ ~Truthy(p_query.body)
              THEN PageEnds("error")
              ELSE p_pc' = "prepare" /\ UNCHANGED p_ret
    /\ UNCHANGED <<p_parent, p_trace>>
    /\ PageFrame

\* The parent id after the override by the environment variable
OverriddenParent(parent_id, environ) ==
    IF Truthy(environ) /\ environ # parent_id THEN environ ELSE parent_id

\* The parent id as it is put into create_params
Converted(parent_id) ==
    [type |-> IF IsDigit(parent_id) THEN "int" ELSE "str", v |-> parent_id]

\* create_params is built
PPrepare ==
    /\ p_pc = "prepare"
    /\ p_parent' = IF Truthy(p_query.parent_id)
                   THEN Converted(OverriddenParent(p_query.parent_id,
                                                   p_environ))
                   ELSE NoParent
    /\ p_pc' = "space"
    /\ UNCHANGED <<p_trace, p_ret>>
    /\ PageFrame

\* self.confluence.get_space(space_key)
PGetSpace ==
    /\ p_pc = "space"
    /\ \E o \in SpaceAnswers :
        /\ p_trace' = Append(p_trace, [call |-> "get_space", answer |-> o])
        /\ IF o = "space"
           THEN /\ p_pc' = IF p_parent = NoParent THEN "create" ELSE "parent"
                /\ UNCHANGED p_ret
           ELSE PageEnds("error")
    /\ UNCHANGED p_parent
    /\ PageFrame

\* get_page_by_id with the converted parent id
PVerifyParent ==
    /\ p_pc = "parent"
    /\ \E o \in PageByIdAnswers :
        /\ p_trace' = Append(p_trace,
                        [call |-> "get_page_by_id", answer |-> o])
        /\ CASE o = "page" -> p_pc' = "create" /\ UNCHANGED p_ret
             [] o = "raises" /\ p_parent.type = "int" ->
                    p_pc' = "retry" /\ UNCHANGED p_ret
             [] OTHER -> PageEnds("error")
    /\ UNCHANGED p_parent
    /\ PageFrame

\* The retry of get_page_by_id with the original string; when it finds the
\* page, create_params is updated and True is returned
PRetryParent ==
    /\ p_pc = "retry"
    /\ \E o \in PageByIdAnswers :
        /\ p_trace' = Append(p_trace,
                        [call |-> "get_page_by_id", answer |-> o])
        /\ IF o = "page"
           THEN /\ p_parent' = [p_parent EXCEPT !.type = "str"]
                /\ PageEnds("True")
           ELSE /\ PageEnds("error")
                /\ UNCHANGED p_parent
    /\ PageFrame

\* What page_create returns for an answer of create_page, and the client
\* calls it makes after it: the result as it is, or an error record
AfterCreate(o) ==
    IF o = "page" THEN <<"page", << >>>> ELSE <<"error", << >>>>

\* self.confluence.create_page and the handling of its answer
PCreate ==
    /\ p_pc = "create"
    /\ \E o \in CreateAnswers :
        /\ p_trace' = Append(p_trace, [call |-> "create_page", answer |-> o])
                        \o AfterCreate(o)[2]
        /\ PageEnds(AfterCreate(o)[1])
    /\ UNCHANGED p_parent
    /\ PageFrame

PageCreateNext ==
    \/ PInitClient
    \/ PParse
    \/ PPrepare
    \/ PGetSpace
    \/ PVerifyParent
    \/ PRetryParent
    \/ PCreate

PageCreateSpec == PageCreateInit /\ [][PageCreateNext]_vars

Called(name) == \E k \in DOMAIN p_trace : p_trace[k].call = name

Answered(name, answers) ==
    \E k \in DOMAIN p_trace :
        p_trace[k].call = name /\ p_trace[k].answer \in answers

\* C35: when the creation fails because a page with the title exists,
\* page_create looks the page up by title and updates it, and does not
\* return a creation error.
C35_DuplicateUpdates ==
    (p_pc = "done" /\ Answered("create_page", {"duplicate", "raises_duplicate"}))
        => /\ Called("get_page_by_title")
           /\ Called("update_page")
           /\ p_ret # "error"

\* C36: page_create never raises and returns a page or an error record; the
\* create request comes after the client is initialized, space, title and
\* body are present, the space is verified and a given parent is verified;
\* and when the parent was verified, at the first call or at the retry, the
\* create request is issued.
C36_Protocol ==
    /\ p_pc = "done" => p_ret \in {"page", "error"}
    /\ Called("create_page") =>
            /\ p_query.kind = "object"
            /\ Truthy(p_query.space) /\ Truthy(p_query.title)
            /\ Truthy(p_query.body)
            /\ Answered("get_space", {"space"})
            /\ Truthy(p_query.parent_id) =>
                    Answered("get_page_by_id", {"page"})
    /\ (p_pc = "done" /\ Answered("get_page_by_id", {"page"}))
            => Called("create_page")

\* C39: every result of the extractor other than the empty string is the
\* text of one JSON object: trimmed, it starts with '{' and ends with '}',
\* and it does not parse to an array, a string, a number or a literal.
C39_ObjectOnly ==
    LET r == Strip(extracted)
    IN  (Extracted /\ extracted # << >>) =>
            /\ r # << >>
            /\ r[1] = LB
            /\ r[Len(r)] = RB
            /\ json_loads_objects_only(extracted)

\* The handler has answered for the HttpUnauthorizedError of a task
AbortedByUnauthorized ==
    /\ h_pc = "done"
    /\ raised = "HttpUnauthorizedError"
    /\ \E i \in DOMAIN tasks : tasks[i].ret = "HttpUnauthorizedError"

\* C38: once fetch_and_analyze_issues has propagated a task's
\* HttpUnauthorizedError to the handler, no task of the batch starts a model
\* invocation, goes to sleep for a retry or modifies an issue.
C38_FatalAbortsAll ==
    [][AbortedByUnauthorized =>
        /\ \A i \in DOMAIN tasks :
            /\ tasks'[i].calls = tasks[i].calls
            /\ tasks'[i].pc = "sleeping" => tasks[i].pc = "sleeping"
        /\ parsed' = parsed]_vars

---------------------------------------------------------------------------
(* JiraAPIWrapper.search_new                                               *)
(*                                                                         *)
(* The query matches the issues 1..q_total. A response to a request with   *)
(* limit l and startAt s reports a page size m of at most l, the issues of *)
(* the positions s+1..s+m that exist, and the total.                       *)

MaxTotal == 4

\* response['issues'] for a page of size m from start_at
PageOfIssues(start_at, m, total) ==
    [k \in 1..(Min({start_at + m, total}) - Min({start_at, total})) |->
        start_at + k]

SearchInit ==
    /\ LoopIdle
    /\ ExtractIdle
    /\ MergeIdle
    /\ BatchIdle
    /\ SnippetIdle
    /\ ConfIdle
    /\ PageIdle
    /\ q_pc = "loop"
    /\ q_arg \in 0..MaxTotal
    /\ q_total \in 0..MaxTotal
    /\ q_max_results = q_arg
    /\ q_start_at = 0
    /\ q_all_issues = << >>

SearchFrame ==
    /\ UNCHANGED <<q_arg, q_total>>
    /\ UNCHANGED <<coreVars, snippetVars, confVars, pageVars>>

\* One iteration of while True: the jql call, the extension of all_issues,
\* the advance of start_at and the test that ends the loop
QFetch ==
    /\ q_pc = "loop"
    /\ \E m \in 0..q_max_results :
        /\ q_max_results' = m
        /\ q_all_issues' =
                q_all_issues \o PageOfIssues(q_start_at, m, q_total)
        /\ q_start_at' = q_start_at + m
        /\ q_pc' = IF q_start_at + m >= q_total THEN "break" ELSE "loop"
    /\ SearchFrame

\* return all_issues
QReturn ==
    /\ q_pc = "break"
    /\ q_pc' = "done"
    /\ UNCHANGED <<q_max_results, q_start_at, q_all_issues>>
    /\ SearchFrame

SearchNext ==
    \/ QFetch
    \/ QReturn

SearchSpec == SearchInit /\ [][SearchNext]_vars

\* search_new is not suspended: a step that can be taken is taken
FairSearchSpec == SearchSpec /\ WF_vars(SearchNext)

\* No issue occurs twice in a list
NoIssueTwice(l) == \A i, j \in DOMAIN l : l[i] = l[j] => i = j

\* C37: search_new returns, and the list it returns has at most max_results
\* elements and holds no issue twice.
C37_SearchNew ==
    /\ [](q_pc = "done" =>
            /\ Len(q_all_issues) <= q_arg
            /\ NoIssueTwice(q_all_issues))
    /\ <>(q_pc = "done")

====
